---- MODULE Spec2Model ----
(***************************************************************************)
(* Model of the student-introduction account index and pagination code     *)
(* (StudentIntroCoordinatorReference: prefetchAccounts, fetchPage) together *)
(* with the ledger it queries.  Bytes are integers 0..255, buffers are      *)
(* sequences of bytes, account identifiers are small integers.              *)
(***************************************************************************)
EXTENDS Integers, Sequences, FiniteSets, TLC

\* ------------------------------------------------------------------ bounds
MaxAccounts == 3
MaxPage == 2
MaxPerPage == 2

\* ------------------------------------------------- program constants
DataSliceOffset == 1
DataSliceLength == 12
MemcmpOffset == 5

\* ------------------------------------------------------------ byte helpers
Min(a, b) == IF a < b THEN a ELSE b
Max(a, b) == IF a > b THEN a ELSE b

\* Four-byte little-endian length prefix of a string field.
U32LE(n) == << n % 256, (n \div 256) % 256, (n \div 65536) % 256, 0 >>

\* Buffer.prototype.slice(start, end) for non-negative arguments: clipped to
\* the buffer's length.
BufferSlice(buf, start, end) ==
    SubSeq(buf, Min(start, Len(buf)) + 1, Min(end, Len(buf)))

\* Buffer.prototype.readUInt32LE(0) throws a RangeError when fewer than four
\* bytes are available.
readUInt32LEThrows(buf) == Len(buf) < 4

readUInt32LE(buf) ==
    buf[1] + 256 * buf[2] + 65536 * buf[3] + 16777216 * buf[4]

\* A slice that takes the element at `end` as well.
ArraySliceInclusive(arr, start, end) ==
    LET n == Len(arr)
        k == IF start < 0 THEN Max(n + start, 0) ELSE Min(start, n)
        f == IF end < 0 THEN Max(n + end, 0) ELSE Min(end, n)
    IN  SubSeq(arr, k + 1, Min(f + 1, n))

\* Array.prototype.slice(start, end): negative arguments count from the end,
\* everything is clipped to the array's length.
ArraySlice(arr, start, end) ==
    LET n == Len(arr)
        k == IF start < 0 THEN Max(n + start, 0) ELSE Min(start, n)
        f == IF end < 0 THEN Max(n + end, 0) ELSE Min(end, n)
    IN  SubSeq(arr, k + 1, f)

\* ------------------------------------------------------------------ ledger
\* On-chain layout of an introduction account: one header byte, then the
\* name as a length-prefixed string, then the message likewise.
AccountBytes(name, message) ==
    <<1>> \o U32LE(Len(name)) \o name \o U32LE(Len(message)) \o message

AccountIds == 1..5

\* 1 "Bob"; 2 and 3 two nine-byte names that agree on their first eight
\* bytes; 4 an account of three bytes; 5 an account whose name is cut short
\* of its declared length.
AccountData(id) ==
    CASE id = 1 -> AccountBytes(<<66, 111, 98>>, <<104, 105>>)
      [] id = 2 -> AccountBytes(<<65, 65, 65, 65, 65, 65, 65, 65, 66>>, <<120>>)
      [] id = 3 -> AccountBytes(<<65, 65, 65, 65, 65, 65, 65, 65, 65>>, <<121>>)
      [] id = 4 -> <<1, 0, 0>>
      [] OTHER  -> <<1>> \o U32LE(5) \o <<65, 98>>

Searches == { <<>>, <<65>> }

\* ------------------------------------------------------- account discovery
\* memcmp filter: the account's bytes at the given offset equal `bytes`.
memcmpMatches(data, offset, bytes) ==
    /\ Len(data) >= offset + Len(bytes)
    /\ SubSeq(data, offset + 1, offset + Len(bytes)) = bytes

\* new TextEncoder().encode(search): the UTF-8 bytes of a string, given as
\* its code points.
RECURSIVE TextEncoderEncode(_)
TextEncoderEncode(chars) ==
    IF chars = <<>> THEN <<>>
    ELSE LET ch == Head(chars)
             bytes == IF ch < 128 THEN <<ch>>
                      ELSE IF ch < 2048
                          THEN <<192 + (ch \div 64), 128 + (ch % 64)>>
                      ELSE IF ch < 65536
                          THEN <<224 + (ch \div 4096),
                                 128 + ((ch \div 64) % 64), 128 + (ch % 64)>>
                      ELSE <<240 + (ch \div 262144),
                             128 + ((ch \div 4096) % 64),
                             128 + ((ch \div 64) % 64), 128 + (ch % 64)>>
         IN  bytes \o TextEncoderEncode(Tail(chars))

\* Number of leading zero digits of a digit sequence.
RECURSIVE LeadingZeros(_)
LeadingZeros(digits) ==
    IF digits = <<>> \/ Head(digits) # 0 THEN 0
    ELSE 1 + LeadingZeros(Tail(digits))

StripZeros(digits) == SubSeq(digits, LeadingZeros(digits) + 1, Len(digits))

\* Long division of a number written in base `from` by `to`: the quotient's
\* digits (base `from`) and the remainder.
RECURSIVE divideDigits(_, _, _, _, _)
divideDigits(digits, from, to, rem, quot) ==
    IF digits = <<>> THEN [q |-> quot, r |-> rem]
    ELSE LET acc == rem * from + Head(digits)
         IN  divideDigits(Tail(digits), from, to, acc % to,
                          Append(quot, acc \div to))

\* The digits in base `to` of a number given by its digits in base `from`.
RECURSIVE convertBase(_, _, _)
convertBase(digits, from, to) ==
    IF digits = <<>> THEN <<>>
    ELSE LET d == divideDigits(digits, from, to, 0, <<>>)
         IN  Append(convertBase(StripZeros(d.q), from, to), d.r)

\* bs58.encode(bytes): base-58 digits (each standing for one character of
\* the alphabet), one zero digit per leading zero byte.
bs58encode(bytes) ==
    [i \in 1..LeadingZeros(bytes) |-> 0]
        \o convertBase(StripZeros(bytes), 256, 58)

\* The node's decoding of a base-58 string back to bytes.
bs58decode(digits) ==
    [i \in 1..LeadingZeros(digits) |-> 0]
        \o convertBase(StripZeros(digits), 58, 256)

STUDENT_INTRO_PROGRAM_ID == "HdE95RSVsdb315jfJtaykXhXY478h53X6okDupVfY9yf"

\* A request that carries the byte filter for the empty search as well.
discoveryRequestAlwaysFiltered(search) ==
    [programId |-> STUDENT_INTRO_PROGRAM_ID,
     dataSlice |-> [offset |-> DataSliceOffset, length |-> DataSliceLength],
     filters |-> << [memcmp |->
                       [offset |-> MemcmpOffset,
                        bytes |-> bs58encode(TextEncoderEncode(search))]] >>]

\* The arguments prefetchAccounts passes to getProgramAccounts.
discoveryRequest(search) ==
    [programId |-> STUDENT_INTRO_PROGRAM_ID,
     dataSlice |-> [offset |-> DataSliceOffset, length |-> DataSliceLength],
     filters |-> IF search = <<>> THEN <<>>
                 ELSE << [memcmp |->
                            [offset |-> MemcmpOffset,
                             bytes |-> bs58encode(TextEncoderEncode(search))]] >>]

\* The node keeps an account when it passes every filter of the request.
matchesFilters(data, filters) ==
    \A i \in 1..Len(filters) :
        memcmpMatches(data, filters[i].memcmp.offset,
                      bs58decode(filters[i].memcmp.bytes))

\* The accounts of a ledger in ascending or descending identifier order.
RECURSIVE IdsAscending(_)
IdsAscending(S) ==
    IF S = {} THEN <<>>
    ELSE LET m == CHOOSE x \in S : \A y \in S : x <= y
         IN  <<m>> \o IdsAscending(S \ {m})

Reverse(s) == [i \in 1..Len(s) |-> s[Len(s) + 1 - i]]

\* connection.getProgramAccounts(programId, { dataSlice, filters }): one
\* (pubkey, data slice) pair per account of the program passing the filter.
\* The node returns them in an order of its own choosing (`descending`).
\* Every account of the model's ledger is owned by the introductions program.
getProgramAccounts(live, config, descending) ==
    LET matching == { id \in live :
                        /\ config.programId = STUDENT_INTRO_PROGRAM_ID
                        /\ matchesFilters(AccountData(id), config.filters) }
        ordered == IF descending THEN Reverse(IdsAscending(matching))
                   ELSE IdsAscending(matching)
    IN  [i \in 1..Len(ordered) |->
            [pubkey |-> ordered[i],
             data |-> BufferSlice(AccountData(ordered[i]),
                                  config.dataSlice.offset,
                                  config.dataSlice.offset
                                      + config.dataSlice.length)]]

\* ------------------------------------------------------------ sorting
\* A key cut as slice(4, lengthA): the end is not moved past the prefix.
nameDataEndAtLength(slice) == BufferSlice(slice, 4, readUInt32LE(slice))

\* const dataA = a.account.data.slice(4, 4 + lengthA)
nameData(slice) == BufferSlice(slice, 4, 4 + readUInt32LE(slice))

\* A comparison that puts the longer of two prefix-related names first.
RECURSIVE compareFromLongerFirst(_, _, _)
compareFromLongerFirst(dataA, dataB, i) ==
    IF i > Min(Len(dataA), Len(dataB)) THEN Len(dataB) - Len(dataA)
    ELSE IF dataA[i] < dataB[i] THEN -1
    ELSE IF dataA[i] > dataB[i] THEN 1
    ELSE compareFromLongerFirst(dataA, dataB, i + 1)

\* The manual byte comparison of the sort callback: negative, zero or
\* positive.
RECURSIVE compareFrom(_, _, _)
compareFrom(dataA, dataB, i) ==
    IF i > Min(Len(dataA), Len(dataB)) THEN Len(dataA) - Len(dataB)
    ELSE IF dataA[i] < dataB[i] THEN -1
    ELSE IF dataA[i] > dataB[i] THEN 1
    ELSE compareFrom(dataA, dataB, i + 1)

compare(dataA, dataB) == compareFrom(dataA, dataB, 1)

\* The sort callback (a, b) => ... on two discovered accounts.
sortCallback(a, b) == compare(nameData(a.data), nameData(b.data))

\* The callback reads the length prefix of both its arguments, so it throws
\* as soon as it is handed an account whose slice has fewer than four bytes;
\* sorting two or more elements hands every element to the callback.
sortThrows(found) ==
    /\ Len(found) >= 2
    /\ \E i \in 1..Len(found) : readUInt32LEThrows(found[i].data)

\* Array.prototype.sort with the callback: a stable sort.
RECURSIVE insertSorted(_, _)
insertSorted(sorted, x) ==
    IF sorted = <<>> THEN <<x>>
    ELSE IF sortCallback(sorted[Len(sorted)], x) <= 0 THEN Append(sorted, x)
    ELSE Append(insertSorted(SubSeq(sorted, 1, Len(sorted) - 1), x),
                sorted[Len(sorted)])

\* A sort that leaves the discovered accounts as they came.
sortAccountsSkipped(found) == found

RECURSIVE sortAccounts(_)
sortAccounts(found) ==
    IF Len(found) <= 1 THEN found
    ELSE insertSorted(sortAccounts(SubSeq(found, 1, Len(found) - 1)),
                      found[Len(found)])

\* accounts.map(account => account.pubkey)
pubkeysOf(found) == [i \in 1..Len(found) |-> found[i].pubkey]

\* ------------------------------------------------------------ decoding
Absent == <<-1>>
Null == [ok |-> FALSE]

\* The code points of a UTF-8 byte sequence, or a failure for bytes that
\* are not UTF-8 (stray or missing continuation bytes, overlong forms,
\* surrogates, values above U+10FFFF).
RECURSIVE Utf8Decode(_)
Utf8Decode(bytes) ==
    IF bytes = <<>> THEN [ok |-> TRUE, chars |-> <<>>]
    ELSE LET b == Head(bytes)
             n == IF b < 128 THEN 1
                  ELSE IF b \in 194..223 THEN 2
                  ELSE IF b \in 224..239 THEN 3
                  ELSE IF b \in 240..244 THEN 4
                  ELSE 0
         IN  IF \/ n = 0
                \/ Len(bytes) < n
                \/ \E i \in 2..n : bytes[i] \notin 128..191
                 THEN [ok |-> FALSE]
             ELSE LET cont(i) == bytes[i] - 128
                      ch == IF n = 1 THEN b
                            ELSE IF n = 2 THEN (b - 192) * 64 + cont(2)
                            ELSE IF n = 3
                                THEN (b - 224) * 4096 + cont(2) * 64 + cont(3)
                            ELSE (b - 240) * 262144 + cont(2) * 4096
                                     + cont(3) * 64 + cont(4)
                      rest == Utf8Decode(SubSeq(bytes, n + 1, Len(bytes)))
                  IN  IF \/ (n = 3 /\ (ch < 2048 \/ ch \in 55296..57343))
                         \/ (n = 4 /\ (ch < 65536 \/ ch > 1114111))
                         \/ ~rest.ok
                          THEN [ok |-> FALSE]
                      ELSE [ok |-> TRUE, chars |-> <<ch>> \o rest.chars]

IsUtf8(bytes) == Utf8Decode(bytes).ok

\* Whether the length declared by a 4-byte little-endian prefix is more
\* than the `remaining` bytes (fewer than 65536).
declaredLengthExceeds(prefix, remaining) ==
    \/ prefix[4] # 0
    \/ prefix[3] # 0
    \/ prefix[1] + 256 * prefix[2] > remaining

\* The length declared by a prefix that fits a buffer of fewer than 65536
\* bytes.
declaredLength(prefix) == prefix[1] + 256 * prefix[2]

\* A read of one length-prefixed string that trusts the declared length.
ReadStringUnchecked(bytes, cursor) ==
    IF Len(bytes) - cursor < 4
        THEN [ok |-> FALSE, err |-> "Truncated", read |-> cursor]
    ELSE LET n == declaredLength(SubSeq(bytes, cursor + 1, cursor + 4))
         IN  [ok |-> TRUE,
              value |-> SubSeq(bytes, cursor + 5,
                               Min(cursor + 4 + n, Len(bytes))),
              next |-> cursor + 4 + n,
              read |-> cursor + 4 + n]

\* Reads the raw bytes of one length-prefixed string at the cursor (0-based).
\* `read` is the end of the bytes looked at.
ReadString(bytes, cursor) ==
    IF Len(bytes) - cursor < 4
        THEN [ok |-> FALSE, err |-> "Truncated", read |-> cursor]
    ELSE LET prefix == SubSeq(bytes, cursor + 1, cursor + 4)
             n == declaredLength(prefix)
         IN  IF declaredLengthExceeds(prefix, Len(bytes) - cursor - 4)
                 THEN [ok |-> FALSE, err |-> "Truncated", read |-> cursor + 4]
             ELSE [ok |-> TRUE,
                   value |-> SubSeq(bytes, cursor + 5, cursor + 4 + n),
                   next |-> cursor + 4 + n,
                   read |-> cursor + 4 + n]

\* An encoding that writes the number of characters of a string as its
\* length.
EncodeLengthInChars(record) ==
    U32LE(Len(record.name)) \o TextEncoderEncode(record.name)
        \o U32LE(Len(record.message)) \o TextEncoderEncode(record.message)

\* Encode: name, then message, each as a 4-byte little-endian length and
\* that many UTF-8 bytes.
Encode(record) ==
    LET name == TextEncoderEncode(record.name)
        message == TextEncoderEncode(record.message)
    IN  U32LE(Len(name)) \o name \o U32LE(Len(message)) \o message

\* A decoding that hands out the name when the message cannot be read.
DecodePartial(bytes) ==
    IF bytes = <<>> THEN [ok |-> FALSE, err |-> "Empty", read |-> 0]
    ELSE LET n == ReadString(bytes, 0)
         IN  IF ~n.ok THEN n
             ELSE LET m == ReadString(bytes, n.next)
                  IN  IF ~m.ok \/ ~IsUtf8(m.value)
                          THEN [ok |-> TRUE, name |-> n.value, read |-> m.read]
                      ELSE IF ~IsUtf8(n.value)
                          THEN [ok |-> FALSE, err |-> "InvalidUtf8",
                                read |-> m.read]
                      ELSE [ok |-> TRUE,
                            name |-> Utf8Decode(n.value).chars,
                            message |-> Utf8Decode(m.value).chars,
                            read |-> m.read]

\* Decode: name, then message, each a length-prefixed UTF-8 string.  A
\* buffer too short for its fields is Truncated whatever its bytes are.
Decode(bytes) ==
    IF bytes = <<>> THEN [ok |-> FALSE, err |-> "Empty", read |-> 0]
    ELSE LET n == ReadString(bytes, 0)
         IN  IF ~n.ok THEN n
             ELSE LET m == ReadString(bytes, n.next)
                  IN  IF ~m.ok THEN m
                      ELSE IF ~IsUtf8(n.value) \/ ~IsUtf8(m.value)
                          THEN [ok |-> FALSE, err |-> "InvalidUtf8",
                                read |-> m.read]
                      ELSE [ok |-> TRUE,
                            name |-> Utf8Decode(n.value).chars,
                            message |-> Utf8Decode(m.value).chars,
                            read |-> m.read]

\* StudentIntroReference.deserialize(account?.data): the record, or null for
\* a missing account or undecodable bytes.  The record's encoding starts
\* after the header byte, where the discovery slice starts.
deserialize(data) ==
    IF data = Absent \/ data = <<>> THEN Null
    ELSE LET r == Decode(BufferSlice(data, DataSliceOffset, Len(data)))
         IN  IF r.ok THEN [ok |-> TRUE, name |-> r.name, message |-> r.message]
             ELSE Null

\* A reduce that gives up at the first account that does not deserialize.
RECURSIVE reduceIntrosFailFast(_, _)
reduceIntrosFailFast(accum, infos) ==
    IF infos = <<>> THEN accum
    ELSE LET studentIntro == deserialize(Head(infos))
         IN  IF ~studentIntro.ok THEN accum
             ELSE reduceIntrosFailFast(Append(accum, studentIntro), Tail(infos))

\* accounts.reduce((accum, account) => ...): appends every record that
\* deserializes, skips the others.
RECURSIVE reduceIntros(_, _)
reduceIntros(accum, infos) ==
    IF infos = <<>> THEN accum
    ELSE LET studentIntro == deserialize(Head(infos))
         IN  IF ~studentIntro.ok THEN reduceIntros(accum, Tail(infos))
             ELSE reduceIntros(Append(accum, studentIntro), Tail(infos))

\* connection.getMultipleAccountsInfo(keys): one entry per key, in order;
\* absent for an account that no longer exists.
getMultipleAccountsInfo(live, keys) ==
    [i \in 1..Len(keys) |->
        IF keys[i] \in live THEN AccountData(keys[i]) ELSE Absent]

\* ------------------------------------------------------------------- state
Callers == {1, 2}

VARIABLES
    ledger,               \* identifiers of the accounts that exist on chain
    accounts,             \* static accounts: the cached, sorted identifiers
    builtFrom,            \* history: the discovery that built `accounts`
    pc,                   \* per caller: position inside fetchPage
    args,                 \* per caller: arguments of its fetchPage call
    paginatedPublicKeys,  \* per caller: the identifiers sliced for the page
    slicedFrom,           \* history, per caller: what the slice was cut from
    infos,                \* history, per caller: the batch-fetch response
    result,               \* per caller: outcome of its last fetchPage call
    rpcLog,               \* history, per caller: ledger calls it issued
    request,              \* per caller: the ledger call it issued last
    trace,                \* history, per caller: rejection, own rebuild
    previous,             \* history: the outcome the caller kept last
    probe,                \* input handed to a pure function
    verdict,              \* what the function made of it
    starter,              \* the list page: its React state and its calls
    displayed,            \* history: where the displayed list came from
    sendSol,              \* the send-SOL page: its React state and its calls
    faucet                \* the faucet page: its React state and its calls

vars == << ledger, accounts, builtFrom, pc, args, paginatedPublicKeys,
           slicedFrom, infos, result, rpcLog, request, trace, previous,
           probe, verdict, starter, displayed, sendSol, faucet >>

NoBuild == [built |-> FALSE]
NoArgs == [page |-> 1, perPage |-> 1, search |-> <<>>, reload |-> FALSE]
NoSlice == [sliced |-> FALSE]
NoResult == [status |-> "none", intros |-> <<>>]
NoInfos == <<>>
NoVerdict == [done |-> FALSE]
NoRequest == [call |-> "none"]
NoRebuild == [done |-> FALSE]
NoTrace == [rejected |-> "none", rebuilt |-> NoRebuild, overlapped |-> FALSE]
NoPrevious == [known |-> FALSE]

\* The list page after its first render: page 1, no search text, nothing
\* to show, the effect of the first render still to run.  `kind` says what
\* each fetchPage call in flight was made for; `formPage` is the page number
\* the submit callback closed over; `connected` says that the wallet gives
\* a publicKey.
InitStarter ==
    [page |-> 1, search |-> <<>>, studentIntros |-> <<>>, isLoading |-> FALSE,
     effect |-> TRUE, tx |-> "idle", formPage |-> 1,
     kind |-> [c \in Callers |-> "none"],
     name |-> <<>>, thoughts |-> <<>>, connected |-> TRUE]

\* Nothing displayed yet, no request made yet.
NoDisplay ==
    [known |-> FALSE, newest |-> [c \in Callers |-> FALSE], latest |-> TRUE,
     failed |-> FALSE, overlap |-> FALSE, owed |-> FALSE,
     page |-> 0, search |-> <<>>, indexSearch |-> <<>>]

\* A wallet page that is not mounted.
NotMounted == [mounted |-> FALSE]

InitPages ==
    /\ starter = InitStarter
    /\ displayed = NoDisplay
    /\ sendSol = NotMounted
    /\ faucet = NotMounted

\* The wallet pages are doing nothing.
walletIdle == UNCHANGED << sendSol, faucet >>

\* No page is doing anything.
pagesIdle ==
    /\ UNCHANGED << starter, displayed >>
    /\ walletIdle

InitialLedgers == { S \in SUBSET AccountIds : Cardinality(S) <= MaxAccounts }

InitCoordinator ==
    /\ accounts = <<>>
    /\ builtFrom = NoBuild
    /\ pc = [c \in Callers |-> "idle"]
    /\ args = [c \in Callers |-> NoArgs]
    /\ paginatedPublicKeys = [c \in Callers |-> <<>>]
    /\ slicedFrom = [c \in Callers |-> NoSlice]
    /\ infos = [c \in Callers |-> NoInfos]
    /\ result = [c \in Callers |-> NoResult]
    /\ rpcLog = [c \in Callers |-> <<>>]
    /\ request = [c \in Callers |-> NoRequest]
    /\ trace = [c \in Callers |-> NoTrace]
    /\ previous = NoPrevious

Init ==
    /\ ledger \in InitialLedgers
    /\ InitCoordinator
    /\ InitPages
    /\ probe = <<>>
    /\ verdict = NoVerdict

\* ----------------------------------------------------------------- actions
\* The batch-fetch request for a slice.
batchRequest(keys) == [call |-> "getMultipleAccountsInfo", keys |-> keys]

\* A page fetch without the early return: the batch fetch is issued for an
\* empty slice too.
sliceAndFetchAlways(c, a, index, from, log) ==
    LET keys == ArraySlice(index, (a.page - 1) * a.perPage,
                           a.page * a.perPage)
    IN  /\ paginatedPublicKeys' = [paginatedPublicKeys EXCEPT ![c] = keys]
        /\ slicedFrom' = [slicedFrom EXCEPT
                             ![c] = [sliced |-> TRUE, index |-> index,
                                     from |-> from]]
        /\ pc' = [pc EXCEPT ![c] = "batch"]
        /\ result' = [result EXCEPT ![c] = NoResult]
        /\ rpcLog' = [rpcLog EXCEPT
                         ![c] = Append(log, "getMultipleAccountsInfo")]
        /\ request' = [request EXCEPT ![c] = batchRequest(keys)]
        /\ UNCHANGED << accounts, builtFrom >>

\* A page fetch that cuts the page out of the cache (splice for slice).
sliceAndFetchSplice(c, a, index, from, log) ==
    LET keys == ArraySlice(index, (a.page - 1) * a.perPage,
                           a.page * a.perPage)
    IN  /\ paginatedPublicKeys' = [paginatedPublicKeys EXCEPT ![c] = keys]
        /\ slicedFrom' = [slicedFrom EXCEPT
                             ![c] = [sliced |-> TRUE, index |-> index,
                                     from |-> from]]
        /\ accounts' = SelectSeq(index,
                                 LAMBDA id : \A i \in 1..Len(keys) : keys[i] # id)
        /\ UNCHANGED builtFrom
        /\ IF keys = <<>>
              THEN /\ pc' = [pc EXCEPT ![c] = "done"]
                   /\ result' = [result EXCEPT
                                    ![c] = [status |-> "ok", intros |-> <<>>]]
                   /\ rpcLog' = [rpcLog EXCEPT ![c] = log]
                   /\ request' = [request EXCEPT
                                     ![c] = IF log = <<>> THEN NoRequest
                                            ELSE request[c]]
              ELSE /\ pc' = [pc EXCEPT ![c] = "batch"]
                   /\ result' = [result EXCEPT ![c] = NoResult]
                   /\ rpcLog' = [rpcLog EXCEPT
                                    ![c] = Append(log, "getMultipleAccountsInfo")]
                   /\ request' = [request EXCEPT ![c] = batchRequest(keys)]

\* Lines 119-134 of fetchPage, run by caller c over the index `index` with
\* the ledger calls `log` issued so far: slice the page, return [] when it is
\* empty, otherwise issue the batch fetch.  The cache is only read.
sliceAndFetch(c, a, index, from, log) ==
    LET keys == ArraySlice(index, (a.page - 1) * a.perPage,
                           a.page * a.perPage)
    IN  /\ paginatedPublicKeys' = [paginatedPublicKeys EXCEPT ![c] = keys]
        /\ slicedFrom' = [slicedFrom EXCEPT
                             ![c] = [sliced |-> TRUE, index |-> index,
                                     from |-> from]]
        /\ UNCHANGED << accounts, builtFrom >>
        /\ IF keys = <<>>
              THEN /\ pc' = [pc EXCEPT ![c] = "done"]
                   /\ result' = [result EXCEPT
                                    ![c] = [status |-> "ok", intros |-> <<>>]]
                   /\ rpcLog' = [rpcLog EXCEPT ![c] = log]
                   /\ request' = [request EXCEPT
                                     ![c] = IF log = <<>> THEN NoRequest
                                            ELSE request[c]]
              ELSE /\ pc' = [pc EXCEPT ![c] = "batch"]
                   /\ result' = [result EXCEPT ![c] = NoResult]
                   /\ rpcLog' = [rpcLog EXCEPT
                                    ![c] = Append(log, "getMultipleAccountsInfo")]
                   /\ request' = [request EXCEPT ![c] = batchRequest(keys)]

\* The history of a call that starts a discovery: it overlaps every
\* discovery that is in flight at that moment.
traceOfDiscovery(c) ==
    [d \in Callers |->
        IF d = c
            THEN [NoTrace EXCEPT
                     !.overlapped = \E e \in Callers \ {c} : pc[e] = "prefetch"]
        ELSE IF pc[d] = "prefetch" THEN [trace[d] EXCEPT !.overlapped = TRUE]
        ELSE trace[d]]

\* A fetchPage that does not wait for prefetchAccounts: it issues the
\* discovery and slices the cache as it is.
fetchPageNotAwaiting(c, page, perPage, search, reload) ==
    LET a == [page |-> page, perPage |-> perPage, search |-> search,
              reload |-> reload]
    IN  /\ pc[c] = "idle"
        /\ UNCHANGED << probe, verdict, previous, ledger >>
        /\ pagesIdle
        /\ args' = [args EXCEPT ![c] = a]
        /\ infos' = [infos EXCEPT ![c] = NoInfos]
        /\ trace' = [trace EXCEPT ![c] = NoTrace]
        /\ IF Len(accounts) = 0 \/ reload
              THEN sliceAndFetch(c, a, accounts, builtFrom,
                                 <<"getProgramAccounts">>)
              ELSE sliceAndFetch(c, a, accounts, builtFrom, <<>>)

\* A fetchPage that lets only one discovery be in flight: it does not start
\* while another caller's discovery is pending.
fetchPageSingleFlight(c, page, perPage, search, reload) ==
    LET a == [page |-> page, perPage |-> perPage, search |-> search,
              reload |-> reload]
    IN  /\ pc[c] = "idle"
        /\ \A d \in Callers \ {c} : pc[d] # "prefetch"
        /\ UNCHANGED << probe, verdict, previous, ledger >>
        /\ pagesIdle
        /\ args' = [args EXCEPT ![c] = a]
        /\ infos' = [infos EXCEPT ![c] = NoInfos]
        /\ IF Len(accounts) = 0 \/ reload
              THEN /\ pc' = [pc EXCEPT ![c] = "prefetch"]
                   /\ rpcLog' = [rpcLog EXCEPT ![c] = <<"getProgramAccounts">>]
                   /\ request' = [request EXCEPT
                                     ![c] = [call |-> "getProgramAccounts",
                                             config |-> discoveryRequest(search)]]
                   /\ trace' = traceOfDiscovery(c)
                   /\ result' = [result EXCEPT ![c] = NoResult]
                   /\ paginatedPublicKeys' =
                          [paginatedPublicKeys EXCEPT ![c] = <<>>]
                   /\ slicedFrom' = [slicedFrom EXCEPT ![c] = NoSlice]
                   /\ UNCHANGED << accounts, builtFrom >>
              ELSE /\ trace' = [trace EXCEPT ![c] = NoTrace]
                   /\ sliceAndFetch(c, a, accounts, builtFrom, <<>>)

\* A fetchPage that rebuilds the cache on every call.
fetchPageAlwaysReload(c, page, perPage, search, reload) ==
    LET a == [page |-> page, perPage |-> perPage, search |-> search,
              reload |-> reload]
    IN  /\ pc[c] = "idle"
        /\ UNCHANGED << probe, verdict, previous, ledger >>
        /\ pagesIdle
        /\ args' = [args EXCEPT ![c] = a]
        /\ infos' = [infos EXCEPT ![c] = NoInfos]
        /\ pc' = [pc EXCEPT ![c] = "prefetch"]
        /\ rpcLog' = [rpcLog EXCEPT ![c] = <<"getProgramAccounts">>]
        /\ request' = [request EXCEPT
                          ![c] = [call |-> "getProgramAccounts",
                                  config |-> discoveryRequest(search)]]
        /\ trace' = traceOfDiscovery(c)
        /\ result' = [result EXCEPT ![c] = NoResult]
        /\ paginatedPublicKeys' = [paginatedPublicKeys EXCEPT ![c] = <<>>]
        /\ slicedFrom' = [slicedFrom EXCEPT ![c] = NoSlice]
        /\ UNCHANGED << accounts, builtFrom >>

\* fetchPage(connection, page, perPage, search, reload) up to its first
\* await, as the coordinator runs it for whoever calls: either
\* prefetchAccounts is started (empty cache or reload), which issues the
\* discovery, or the page is sliced from the cache at once.
fetchPageCall(c, page, perPage, search, reload) ==
    LET a == [page |-> page, perPage |-> perPage, search |-> search,
              reload |-> reload]
    IN  /\ pc[c] = "idle"
        /\ UNCHANGED ledger
        /\ args' = [args EXCEPT ![c] = a]
        /\ infos' = [infos EXCEPT ![c] = NoInfos]
        /\ IF Len(accounts) = 0 \/ reload
              THEN /\ pc' = [pc EXCEPT ![c] = "prefetch"]
                   /\ rpcLog' = [rpcLog EXCEPT ![c] = <<"getProgramAccounts">>]
                   /\ request' = [request EXCEPT
                                     ![c] = [call |-> "getProgramAccounts",
                                             config |-> discoveryRequest(search)]]
                   /\ trace' = traceOfDiscovery(c)
                   /\ result' = [result EXCEPT ![c] = NoResult]
                   /\ paginatedPublicKeys' =
                          [paginatedPublicKeys EXCEPT ![c] = <<>>]
                   /\ slicedFrom' = [slicedFrom EXCEPT ![c] = NoSlice]
                   /\ UNCHANGED << accounts, builtFrom >>
              ELSE /\ trace' = [trace EXCEPT ![c] = NoTrace]
                   /\ sliceAndFetch(c, a, accounts, builtFrom, <<>>)

\* fetchPage called by a caller that is not one of the pages.
fetchPage(c, page, perPage, search, reload) ==
    /\ fetchPageCall(c, page, perPage, search, reload)
    /\ UNCHANGED << probe, verdict, previous >>
    /\ pagesIdle

\* The caller's fetchPage call ends with an exception.
throwFrom(c, error) ==
    /\ pc' = [pc EXCEPT ![c] = "done"]
    /\ result' = [result EXCEPT ![c] = [status |-> error, intros |-> <<>>]]

\* A prefetchAccounts that adds what it found to the cache instead of
\* replacing the cache.
prefetchAccountsResolveMerged(c, descending) ==
    LET found == getProgramAccounts(ledger, request[c].config, descending)
        sorted == pubkeysOf(sortAccounts(found))
    IN  /\ pc[c] = "prefetch"
        /\ UNCHANGED << probe, verdict, previous >>
    /\ pagesIdle
        /\ pagesIdle
        /\ ~sortThrows(found)
        /\ accounts' = accounts \o
                  SelectSeq(sorted, LAMBDA id :
                                \A i \in 1..Len(accounts) : accounts[i] # id)
        /\ builtFrom' = [built |-> TRUE, search |-> args[c].search,
                         found |-> found, by |-> c]
        /\ trace' = [trace EXCEPT
                        ![c].rebuilt = [done |-> TRUE, index |-> sorted]]
        /\ pc' = [pc EXCEPT ![c] = "resumed"]
        /\ UNCHANGED << ledger, args, paginatedPublicKeys, slicedFrom, infos,
                        result, rpcLog, request >>

\* prefetchAccounts after getProgramAccounts resolved: sort, then replace
\* the cache by the sorted public keys.
prefetchAccountsResolve(c, descending) ==
    LET found == getProgramAccounts(ledger, request[c].config, descending)
        sorted == pubkeysOf(sortAccounts(found))
    IN  /\ pc[c] = "prefetch"
        /\ UNCHANGED << probe, verdict, previous >>
    /\ pagesIdle
        /\ pagesIdle
        /\ ~sortThrows(found)
        /\ accounts' = sorted
        /\ builtFrom' = [built |-> TRUE, search |-> args[c].search,
                         found |-> found, by |-> c]
        /\ trace' = [trace EXCEPT
                        ![c].rebuilt = [done |-> TRUE, index |-> sorted]]
        /\ pc' = [pc EXCEPT ![c] = "resumed"]
        /\ UNCHANGED << ledger, args, paginatedPublicKeys, slicedFrom, infos,
                        result, rpcLog, request >>

\* prefetchAccounts when the sort callback throws: the exception leaves
\* prefetchAccounts and fetchPage before the cache is assigned.
prefetchAccountsThrow(c, descending) ==
    LET found == getProgramAccounts(ledger, request[c].config, descending)
    IN  /\ pc[c] = "prefetch"
        /\ UNCHANGED << probe, verdict, previous >>
    /\ pagesIdle
        /\ pagesIdle
        /\ sortThrows(found)
        /\ throwFrom(c, "RangeError")
        /\ UNCHANGED << ledger, accounts, builtFrom, args, paginatedPublicKeys,
                        slicedFrom, infos, rpcLog, request, trace >>

\* A rejection handled by a prefetchAccounts that had emptied the cache
\* before it asked the node.
getProgramAccountsRejectCleared(c) ==
    /\ pc[c] = "prefetch"
    /\ UNCHANGED << probe, verdict, previous >>
    /\ pagesIdle
    /\ throwFrom(c, "FetchError")
    /\ accounts' = <<>>
    /\ trace' = [trace EXCEPT ![c].rejected = "getProgramAccounts"]
    /\ UNCHANGED << ledger, builtFrom, args, paginatedPublicKeys,
                    slicedFrom, infos, rpcLog, request >>

\* A rejection answered by asking the node once more.
getProgramAccountsRejectRetried(c) ==
    /\ pc[c] = "prefetch"
    /\ Len(rpcLog[c]) < 2
    /\ UNCHANGED << probe, verdict, previous >>
    /\ pagesIdle
    /\ rpcLog' = [rpcLog EXCEPT ![c] = Append(@, "getProgramAccounts")]
    /\ trace' = [trace EXCEPT ![c].rejected = "getProgramAccounts"]
    /\ UNCHANGED << ledger, accounts, builtFrom, pc, args, paginatedPublicKeys,
                    slicedFrom, infos, result, request >>

\* getProgramAccounts rejects: the rejection leaves prefetchAccounts and
\* fetchPage.
getProgramAccountsReject(c) ==
    /\ pc[c] = "prefetch"
    /\ UNCHANGED << probe, verdict, previous >>
    /\ pagesIdle
    /\ throwFrom(c, "FetchError")
    /\ trace' = [trace EXCEPT ![c].rejected = "getProgramAccounts"]
    /\ UNCHANGED << ledger, accounts, builtFrom, args, paginatedPublicKeys,
                    slicedFrom, infos, rpcLog, request >>

\* fetchPage continues after `await this.prefetchAccounts(...)`.
fetchPageResume(c) ==
    /\ pc[c] = "resumed"
    /\ UNCHANGED << probe, verdict, previous >>
    /\ pagesIdle
    /\ sliceAndFetch(c, args[c], accounts, builtFrom, rpcLog[c])
    /\ UNCHANGED << ledger, args, infos, trace >>

\* A batch fetch that also drops from the cache the identifiers whose
\* account is gone.
getMultipleAccountsInfoResolvePruning(c) ==
    LET fetched == getMultipleAccountsInfo(ledger, request[c].keys)
    IN  /\ pc[c] = "batch"
        /\ UNCHANGED << probe, verdict, previous >>
    /\ pagesIdle
        /\ pagesIdle
        /\ infos' = [infos EXCEPT ![c] = fetched]
        /\ pc' = [pc EXCEPT ![c] = "done"]
        /\ result' = [result EXCEPT
                         ![c] = [status |-> "ok",
                                 intros |-> reduceIntros(<<>>, fetched)]]
        /\ accounts' = SelectSeq(accounts, LAMBDA id : id \in ledger)
        /\ UNCHANGED << ledger, builtFrom, args, paginatedPublicKeys,
                        slicedFrom, rpcLog, request, trace >>

\* getMultipleAccountsInfo resolved: decode what decodes, return it.
getMultipleAccountsInfoResolve(c) ==
    LET fetched == getMultipleAccountsInfo(ledger, request[c].keys)
    IN  /\ pc[c] = "batch"
        /\ UNCHANGED << probe, verdict, previous >>
    /\ pagesIdle
        /\ pagesIdle
        /\ infos' = [infos EXCEPT ![c] = fetched]
        /\ pc' = [pc EXCEPT ![c] = "done"]
        /\ result' = [result EXCEPT
                         ![c] = [status |-> "ok",
                                 intros |-> reduceIntros(<<>>, fetched)]]
        /\ UNCHANGED << ledger, accounts, builtFrom, args, paginatedPublicKeys,
                        slicedFrom, rpcLog, request, trace >>

\* A rejected batch fetch that is swallowed: the caller gets an empty list.
getMultipleAccountsInfoRejectSwallowed(c) ==
    /\ pc[c] = "batch"
    /\ UNCHANGED << probe, verdict, previous >>
    /\ pagesIdle
    /\ pc' = [pc EXCEPT ![c] = "done"]
    /\ result' = [result EXCEPT ![c] = [status |-> "ok", intros |-> <<>>]]
    /\ trace' = [trace EXCEPT ![c].rejected = "getMultipleAccountsInfo"]
    /\ UNCHANGED << ledger, accounts, builtFrom, args, paginatedPublicKeys,
                    slicedFrom, infos, rpcLog, request >>

\* getMultipleAccountsInfo rejects: the rejection leaves fetchPage.
getMultipleAccountsInfoReject(c) ==
    /\ pc[c] = "batch"
    /\ UNCHANGED << probe, verdict, previous >>
    /\ pagesIdle
    /\ throwFrom(c, "FetchError")
    /\ trace' = [trace EXCEPT ![c].rejected = "getMultipleAccountsInfo"]
    /\ UNCHANGED << ledger, accounts, builtFrom, args, paginatedPublicKeys,
                    slicedFrom, infos, rpcLog, request >>

\* The locals of a settled call are gone.
settleCall(c) ==
    /\ pc' = [pc EXCEPT ![c] = "idle"]
    /\ args' = [args EXCEPT ![c] = NoArgs]
    /\ paginatedPublicKeys' = [paginatedPublicKeys EXCEPT ![c] = <<>>]
    /\ slicedFrom' = [slicedFrom EXCEPT ![c] = NoSlice]
    /\ infos' = [infos EXCEPT ![c] = NoInfos]
    /\ result' = [result EXCEPT ![c] = NoResult]
    /\ rpcLog' = [rpcLog EXCEPT ![c] = <<>>]
    /\ request' = [request EXCEPT ![c] = NoRequest]
    /\ trace' = [trace EXCEPT ![c] = NoTrace]
    /\ UNCHANGED << ledger, accounts, builtFrom >>

\* The promise returned by fetchPage settles and its caller takes the
\* outcome; the call's locals are gone.
fetchPageSettle(c) ==
    /\ pc[c] = "done"
    /\ UNCHANGED << probe, verdict, previous >>
    /\ pagesIdle
    /\ settleCall(c)

\* The promise settles and its caller keeps the arguments and the outcome
\* of the call, to compare the next call with.
fetchPageSettleKept(c) ==
    /\ pc[c] = "done"
    /\ UNCHANGED << probe, verdict >>
    /\ pagesIdle
    /\ previous' = [known |-> TRUE, args |-> args[c], result |-> result[c],
                    index |-> accounts]
    /\ settleCall(c)

\* An account is closed on chain, at any moment.
closeAccount(id) ==
    /\ id \in ledger
    /\ UNCHANGED << probe, verdict, previous >>
    /\ pagesIdle
    /\ ledger' = ledger \ {id}
    /\ UNCHANGED << accounts, builtFrom, pc, args, paginatedPublicKeys,
                    slicedFrom, infos, result, rpcLog, request, trace >>

\* ------------------------------------------------------- the list page
\* The page size the list page asks for, 5 in the source, scaled down to the
\* ledgers of the model.
ItemsPerPage == 2

\* The lowest call slot that is free: the page's next fetchPage call.
freeSlot(c) ==
    /\ pc[c] = "idle"
    /\ \A d \in Callers : d < c => pc[d] # "idle"

\* The history of a request the page issues with caller c: it is the newest
\* request, nothing displayed comes from it yet, and it overlaps the calls
\* in flight; a refresh owed to a submission is paid when the call rebuilds.
requested(c, rebuilds) ==
    [displayed EXCEPT
        !.newest = [d \in Callers |-> d = c],
        !.latest = FALSE,
        !.failed = FALSE,
        !.overlap = @ \/ \E d \in Callers \ {c} : pc[d] # "idle",
        !.owed = @ /\ ~rebuilds]

\* The history of the list handed over by caller c.
shownFrom(c) ==
    [displayed EXCEPT
        !.known = TRUE,
        !.latest = displayed.newest[c],
        !.page = args[c].page,
        !.search = args[c].search,
        !.indexSearch = slicedFrom[c].from.search]

\* The effect of a render in which page, search or connection changed:
\* setIsLoading(true), then fetchPage(connection, page, 5, search,
\* search !== '').
starterEffect(c) ==
    /\ starter.effect
    /\ freeSlot(c)
    /\ fetchPageCall(c, starter.page, ItemsPerPage, starter.search,
                     starter.search # <<>>)
    /\ starter' = [starter EXCEPT !.effect = FALSE, !.isLoading = TRUE,
                                  !.kind[c] = "effect"]
    /\ displayed' = requested(c, accounts = <<>> \/ starter.search # <<>>)
    /\ UNCHANGED << probe, verdict, previous >>
    /\ walletIdle

\* .then(intros => setStudentIntros(intros)).finally(() =>
\* setIsLoading(false)) of the effect's call: the list is replaced when the
\* call returned, and loading ends either way.
starterEffectSettled(c) ==
    /\ pc[c] = "done"
    /\ starter.kind[c] = "effect"
    /\ starter' = [starter EXCEPT
                      !.studentIntros = IF result[c].status = "ok"
                                            THEN result[c].intros ELSE @,
                      !.isLoading = FALSE,
                      !.kind[c] = "none"]
    /\ displayed' = IF result[c].status = "ok" THEN shownFrom(c)
                    ELSE [displayed EXCEPT !.failed = @ \/ displayed.newest[c]]
    /\ settleCall(c)
    /\ UNCHANGED << probe, verdict, previous >>
    /\ walletIdle

\* .then(setStudentIntros) of the refetch after a submission: the list is
\* replaced when the call returned; a failure is not handled.
starterRefetchSettled(c) ==
    /\ pc[c] = "done"
    /\ starter.kind[c] = "refetch"
    /\ starter' = [starter EXCEPT
                      !.studentIntros = IF result[c].status = "ok"
                                            THEN result[c].intros ELSE @,
                      !.kind[c] = "none"]
    /\ displayed' = IF result[c].status = "ok" THEN shownFrom(c)
                    ELSE [displayed EXCEPT !.failed = @ \/ displayed.newest[c]]
    /\ settleCall(c)
    /\ UNCHANGED << probe, verdict, previous >>
    /\ walletIdle

\* Whatever the page does, the coordinator is not touched.
coordinatorUntouched ==
    UNCHANGED << ledger, accounts, builtFrom, pc, args, paginatedPublicKeys,
                 slicedFrom, infos, result, rpcLog, request, trace, previous,
                 probe, verdict >>

\* onChange of the search box: setSearch(e.target.value).
setSearch(text) ==
    /\ ~starter.effect
    /\ text # starter.search
    /\ \E c \in Callers : pc[c] = "idle"
    /\ starter' = [starter EXCEPT !.search = text, !.effect = TRUE]
    /\ UNCHANGED displayed
    /\ coordinatorUntouched
    /\ walletIdle

\* The Next button, disabled={studentIntros.length < 5 || isLoading}:
\* setPage(page + 1).
nextPage ==
    /\ ~starter.effect
    /\ ~(Len(starter.studentIntros) < ItemsPerPage \/ starter.isLoading)
    /\ starter.page < MaxPage
    /\ \E c \in Callers : pc[c] = "idle"
    /\ starter' = [starter EXCEPT !.page = @ + 1, !.effect = TRUE]
    /\ UNCHANGED displayed
    /\ coordinatorUntouched
    /\ walletIdle

\* The Previous button, disabled={page <= 1 || isLoading}: setPage(page - 1).
previousPage ==
    /\ ~starter.effect
    /\ ~(starter.page <= 1 \/ starter.isLoading)
    /\ \E c \in Callers : pc[c] = "idle"
    /\ starter' = [starter EXCEPT !.page = @ - 1, !.effect = TRUE]
    /\ UNCHANGED displayed
    /\ coordinatorUntouched
    /\ walletIdle

\* Texts of the form's fields: nothing, and one letter.
FormTexts == { <<>>, <<65>> }

\* Typing in the form: name or thoughts change, so useCallback makes a new
\* createSubmission, which closes over the page number of this render.
editForm(name, thoughts) ==
    /\ ~starter.effect
    /\ starter.tx = "idle"
    /\ << name, thoughts >> # << starter.name, starter.thoughts >>
    /\ starter' = [starter EXCEPT !.name = name, !.thoughts = thoughts,
                                  !.formPage = starter.page]
    /\ UNCHANGED displayed
    /\ coordinatorUntouched
    /\ walletIdle

\* The wallet is connected or disconnected: publicKey changes, so
\* useCallback makes a new createSubmission.
starterWalletChange ==
    /\ ~starter.effect
    /\ starter' = [starter EXCEPT !.connected = ~@,
                                  !.formPage = starter.page]
    /\ UNCHANGED displayed
    /\ coordinatorUntouched
    /\ walletIdle

\* The form is submitted (the button is disabled while isLoading or while
\* a field is empty): without a publicKey createSubmission returns after a
\* toast, else it calls handleTransactionSubmit, which sets isLoading and
\* awaits sendTransaction.
createSubmission ==
    /\ ~starter.effect
    /\ starter.tx = "idle"
    /\ ~starter.isLoading
    /\ starter.name # <<>>
    /\ starter.thoughts # <<>>
    /\ starter' = IF ~starter.connected THEN starter
                  ELSE [starter EXCEPT !.tx = "sending", !.isLoading = TRUE]
    /\ UNCHANGED displayed
    /\ coordinatorUntouched
    /\ walletIdle

\* sendTransaction resolved and the callback's page is not 1: setPage(1);
\* finally setIsLoading(false); createSubmission then clears the form.
submissionSentSetPage ==
    /\ starter.tx = "sending"
    /\ starter.formPage # 1
    /\ starter' = [starter EXCEPT
                      !.page = 1,
                      !.effect = @ \/ starter.page # 1,
                      !.isLoading = FALSE,
                      !.tx = "idle",
                      !.name = <<>>,
                      !.thoughts = <<>>,
                      !.formPage = 1]
    /\ displayed' = [displayed EXCEPT !.owed = TRUE]
    /\ coordinatorUntouched
    /\ walletIdle

\* sendTransaction resolved and the callback's page is 1:
\* fetchPage(connection, 1, 5, '', true).then(setStudentIntros); finally
\* setIsLoading(false); createSubmission then clears the form.
submissionSentRefetch(c) ==
    /\ starter.tx = "sending"
    /\ starter.formPage = 1
    /\ freeSlot(c)
    /\ fetchPageCall(c, 1, ItemsPerPage, <<>>, TRUE)
    /\ starter' = [starter EXCEPT
                      !.isLoading = FALSE,
                      !.tx = "idle",
                      !.name = <<>>,
                      !.thoughts = <<>>,
                      !.formPage = starter.page,
                      !.kind[c] = "refetch"]
    /\ displayed' = requested(c, TRUE)
    /\ UNCHANGED << probe, verdict, previous >>
    /\ walletIdle

\* sendTransaction rejected: the error is caught; finally
\* setIsLoading(false); createSubmission then clears the form.
submissionFailed ==
    /\ starter.tx = "sending"
    /\ starter' = [starter EXCEPT
                      !.isLoading = FALSE,
                      !.tx = "idle",
                      !.name = <<>>,
                      !.thoughts = <<>>,
                      !.formPage = starter.page]
    /\ UNCHANGED displayed
    /\ coordinatorUntouched
    /\ walletIdle

\* ------------------------------------------------------ the wallet pages
\* Balances and amounts are whole SOL, from 0 to these bounds; at most this
\* many refresh timers and balance requests are outstanding at a time.
MaxBalance == 2
MaxAmount == 2
MaxTimers == 1
MaxFetches == 1

\* Texts of the recipient box: blank, not a key, the sender's own key,
\* another key.
Recipients == { "", "not a key", "own", "other" }

\* validateSolanaAddress: new web3.PublicKey(address) does not throw.
validateSolanaAddress(address) == address \in { "own", "other" }

\* Messages of the errors a wallet or node call rejects with; "" is an error
\* without a message.
RejectionMessages ==
    { "User rejected the request", "insufficient funds",
      "blockhash not found", "Wallet not ready", "" }

\* The message the catch block of handleSendTransaction shows for an error.
sendErrorMessage(message) ==
    CASE message = "User rejected the request" ->
             "Transaction was cancelled by user"
      [] message = "insufficient funds" ->
             "Insufficient funds for transaction"
      [] message = "blockhash not found" ->
             "Transaction expired. Please try again."
      [] message # "" -> message
      [] OTHER -> "Transaction failed. Please try again."

\* The send-SOL page after its first render and the first run of its
\* effect, which has called fetchBalance.  `chain` is the balance of the
\* wallet on chain; `timers` counts the setTimeout(fetchBalance) pending,
\* `fetches` the getAccountInfo calls in flight; `pc` is the handler's
\* position and `amountToSend` the amount it parsed; `landed` says that the
\* transfer the wallet holds has been processed on chain.
InitSendSol(connected, chain) ==
    [mounted |-> TRUE, connected |-> connected, chain |-> chain,
     recipientAddress |-> "", isValidAddress |-> FALSE, amount |-> 0,
     balance |-> 0, isLoading |-> FALSE, error |-> "", txSig |-> "",
     pc |-> "idle", amountToSend |-> 0, landed |-> FALSE, timers |-> 0,
     fetches |-> IF connected THEN 1 ELSE 0]

\* Nothing but the send-SOL page changes.
onlySendSol ==
    /\ coordinatorUntouched
    /\ UNCHANGED << starter, displayed, faucet >>

\* fetchBalance of the send-SOL page: nothing without a wallet, else a
\* getAccountInfo call.
sendFetchBalance(s) ==
    IF s.connected THEN [s EXCEPT !.fetches = @ + 1] ELSE s

\* The wallet is connected or disconnected: fetchBalance is a new callback
\* and the effect calls it.
sendWalletChange ==
    /\ sendSol.mounted
    /\ sendSol.fetches < MaxFetches
    /\ sendSol' = sendFetchBalance([sendSol EXCEPT !.connected = ~@])
    /\ onlySendSol

\* getAccountInfo resolved: setBalance(lamports / LAMPORTS_PER_SOL), or
\* setBalance(0) for an account that does not exist.
sendGetAccountInfoResolve ==
    /\ sendSol.mounted
    /\ sendSol.fetches > 0
    /\ sendSol' = [sendSol EXCEPT !.fetches = @ - 1,
                                  !.balance = sendSol.chain]
    /\ onlySendSol

\* getAccountInfo rejected: a toast, the balance is kept.
sendGetAccountInfoReject ==
    /\ sendSol.mounted
    /\ sendSol.fetches > 0
    /\ sendSol' = [sendSol EXCEPT !.fetches = @ - 1]
    /\ onlySendSol

\* A timer set by setTimeout(fetchBalance, 2000) fires.
sendTimerFires ==
    /\ sendSol.mounted
    /\ sendSol.timers > 0
    /\ sendSol.fetches < MaxFetches
    /\ sendSol' = sendFetchBalance([sendSol EXCEPT !.timers = @ - 1])
    /\ onlySendSol

\* handleAddressChange: the text, no error, and the validity of the
\* trimmed text.
handleAddressChange(address) ==
    /\ sendSol.mounted
    /\ address # sendSol.recipientAddress
    /\ sendSol' = [sendSol EXCEPT
                      !.recipientAddress = address,
                      !.error = "",
                      !.isValidAddress = address # ""
                                         /\ validateSolanaAddress(address)]
    /\ onlySendSol

\* handleAmountChange: the amount typed, no error.  0 stands for the empty
\* text and for a typed zero, which the handler treats alike.
handleAmountChange(value) ==
    /\ sendSol.mounted
    /\ value # sendSol.amount
    /\ sendSol' = [sendSol EXCEPT !.amount = value, !.error = ""]
    /\ onlySendSol

\* The validation of handleSendTransaction without the check of the amount
\* against the balance.
sendValidationNoBalanceCheck(s) ==
    CASE ~s.connected -> "Please connect your wallet first!"
      [] s.recipientAddress = "" -> "Please enter a recipient address"
      [] ~s.isValidAddress -> "Please enter a valid Solana address"
      [] s.amount <= 0 -> "Please enter a valid amount greater than 0"
      [] s.recipientAddress = "own" -> "Cannot send SOL to yourself"
      [] OTHER -> ""

\* The validation of handleSendTransaction: the message of the first check
\* that fails, "" when all hold.
sendValidation(s) ==
    CASE ~s.connected -> "Please connect your wallet first!"
      [] s.recipientAddress = "" -> "Please enter a recipient address"
      [] ~s.isValidAddress -> "Please enter a valid Solana address"
      [] s.amount <= 0 -> "Please enter a valid amount greater than 0"
      [] s.amount > s.balance -> "Insufficient balance"
      [] s.recipientAddress = "own" -> "Cannot send SOL to yourself"
      [] OTHER -> ""

\* handleSendTransaction up to its await: setError(''), the validation with
\* its early returns, then setIsLoading(true), the transfer, and
\* sendTransaction handed to the wallet.  The submit button is disabled
\* while isLoading.
handleSendTransaction ==
    /\ sendSol.mounted
    /\ sendSol.pc = "idle"
    /\ ~sendSol.isLoading
    /\ LET message == sendValidation(sendSol)
       IN  sendSol' =
               IF message # ""
                   THEN [sendSol EXCEPT !.error = message]
                   ELSE [sendSol EXCEPT !.error = "",
                                        !.isLoading = TRUE,
                                        !.amountToSend = sendSol.amount,
                                        !.pc = "wallet"]
    /\ onlySendSol

\* The transfer that the wallet has signed and sent is processed on chain,
\* which does not wait for the page to hear of the signature.
transferLands ==
    /\ sendSol.mounted
    /\ sendSol.pc = "wallet"
    /\ ~sendSol.landed
    /\ sendSol.chain >= sendSol.amountToSend
    /\ sendSol' = [sendSol EXCEPT !.chain = @ - sendSol.amountToSend,
                                  !.landed = TRUE]
    /\ onlySendSol

\* sendTransaction resolved with a signature: setTxSig, the balance less
\* the amount sent, the form cleared, a refresh timer set; finally
\* setIsLoading(false).  A transfer not processed yet is processed now.
sendTransactionResolve ==
    /\ sendSol.mounted
    /\ sendSol.pc = "wallet"
    /\ sendSol.landed \/ sendSol.chain >= sendSol.amountToSend
    /\ sendSol.timers < MaxTimers
    /\ sendSol' = [sendSol EXCEPT
                      !.chain = IF sendSol.landed THEN @
                                ELSE @ - sendSol.amountToSend,
                      !.landed = FALSE,
                      !.txSig = "signature",
                      !.balance = @ - sendSol.amountToSend,
                      !.recipientAddress = "",
                      !.amount = 0,
                      !.isValidAddress = FALSE,
                      !.timers = @ + 1,
                      !.isLoading = FALSE,
                      !.pc = "idle"]
    /\ onlySendSol

\* sendTransaction rejected with the loading flag left as it is.
sendTransactionRejectNoFinally(message) ==
    /\ sendSol.mounted
    /\ sendSol.pc = "wallet"
    /\ sendSol' = [sendSol EXCEPT
                      !.error = sendErrorMessage(message),
                      !.landed = FALSE,
                      !.pc = "idle"]
    /\ onlySendSol

\* sendTransaction rejected with the form cleared as after a success.
sendTransactionRejectClearsForm(message) ==
    /\ sendSol.mounted
    /\ sendSol.pc = "wallet"
    /\ sendSol' = [sendSol EXCEPT
                      !.error = sendErrorMessage(message),
                      !.landed = FALSE,
                      !.recipientAddress = "",
                      !.amount = 0,
                      !.isValidAddress = FALSE,
                      !.isLoading = FALSE,
                      !.pc = "idle"]
    /\ onlySendSol

\* sendTransaction rejected, be it before the transfer was sent or after:
\* the catch block sets the error message; finally setIsLoading(false).
sendTransactionReject(message) ==
    /\ sendSol.mounted
    /\ sendSol.pc = "wallet"
    /\ sendSol' = [sendSol EXCEPT
                      !.error = sendErrorMessage(message),
                      !.landed = FALSE,
                      !.isLoading = FALSE,
                      !.pc = "idle"]
    /\ onlySendSol

\* The faucet page after its first render and the first run of its effect.
\* `balance` is meaningful while `balanceKnown`; the state starts with
\* null and returns to it when a balance request fails.  `sender` is what
\* the handler knows of the balance of its temporary keypair.
InitFaucet(connected, chain) ==
    [mounted |-> TRUE, connected |-> connected, chain |-> chain,
     balance |-> 0, balanceKnown |-> FALSE, isLoading |-> FALSE,
     error |-> "", txSig |-> "", pc |-> "idle", sender |-> 0, timers |-> 0,
     fetches |-> IF connected THEN 1 ELSE 0]

\* Nothing but the faucet page changes.
onlyFaucet ==
    /\ coordinatorUntouched
    /\ UNCHANGED << starter, displayed, sendSol >>

\* fetchBalance of the faucet page.
faucetFetchBalance(s) ==
    IF s.connected THEN [s EXCEPT !.fetches = @ + 1] ELSE s

faucetWalletChange ==
    /\ faucet.mounted
    /\ faucet.fetches < MaxFetches
    /\ faucet' = faucetFetchBalance([faucet EXCEPT !.connected = ~@])
    /\ onlyFaucet

\* getAccountInfo resolved: setBalance of the balance on chain.
faucetGetAccountInfoResolve ==
    /\ faucet.mounted
    /\ faucet.fetches > 0
    /\ faucet' = [faucet EXCEPT !.fetches = @ - 1,
                                !.balance = faucet.chain,
                                !.balanceKnown = TRUE]
    /\ onlyFaucet

\* getAccountInfo rejected: setBalance(null).
faucetGetAccountInfoReject ==
    /\ faucet.mounted
    /\ faucet.fetches > 0
    /\ faucet' = [faucet EXCEPT !.fetches = @ - 1,
                                !.balance = 0,
                                !.balanceKnown = FALSE]
    /\ onlyFaucet

faucetTimerFires ==
    /\ faucet.mounted
    /\ faucet.timers > 0
    /\ faucet.fetches < MaxFetches
    /\ faucet' = faucetFetchBalance([faucet EXCEPT !.timers = @ - 1])
    /\ onlyFaucet

\* fundWallet up to its first await: setError(''), the wallet check with
\* its early return, then setIsLoading(true), a fresh keypair, and
\* getBalance of it.  The button is disabled while isLoading.
fundWallet ==
    /\ faucet.mounted
    /\ faucet.pc = "idle"
    /\ ~faucet.isLoading
    /\ faucet' =
           IF ~faucet.connected
               THEN [faucet EXCEPT
                        !.error = "Please connect your wallet first!"]
               ELSE [faucet EXCEPT !.error = "",
                                   !.isLoading = TRUE,
                                   !.sender = 0,
                                   !.pc = "getBalance"]
    /\ onlyFaucet

\* getBalance resolved: below one SOL an airdrop is requested, else the
\* transfer goes to the wallet.
getBalanceResolve(senderBalance) ==
    /\ faucet.mounted
    /\ faucet.pc = "getBalance"
    /\ faucet' = [faucet EXCEPT
                     !.sender = senderBalance,
                     !.pc = IF senderBalance < 1 THEN "requestAirdrop"
                            ELSE "wallet"]
    /\ onlyFaucet

\* requestAirdrop of two SOL resolved: the handler waits two seconds.
requestAirdropResolve ==
    /\ faucet.mounted
    /\ faucet.pc = "requestAirdrop"
    /\ faucet' = [faucet EXCEPT !.sender = @ + 2, !.pc = "wait"]
    /\ onlyFaucet

\* The two seconds are over: the transfer goes to the wallet.
airdropWaitOver ==
    /\ faucet.mounted
    /\ faucet.pc = "wait"
    /\ faucet' = [faucet EXCEPT !.pc = "wallet"]
    /\ onlyFaucet

\* sendTransaction resolved: setTxSig, a refresh timer set; finally
\* setIsLoading(false).
fundWalletSent ==
    /\ faucet.mounted
    /\ faucet.pc = "wallet"
    /\ faucet.timers < MaxTimers
    /\ faucet' = [faucet EXCEPT
                     !.chain = Min(@ + 1, MaxBalance),
                     !.txSig = "signature",
                     !.timers = @ + 1,
                     !.isLoading = FALSE,
                     !.pc = "idle"]
    /\ onlyFaucet

\* getBalance, requestAirdrop or sendTransaction rejected: the catch block
\* shows err.message or its own text; finally setIsLoading(false).
fundWalletRejected(message) ==
    /\ faucet.mounted
    /\ faucet.pc \in { "getBalance", "requestAirdrop", "wallet" }
    /\ faucet' = [faucet EXCEPT
                     !.error = IF message # "" THEN message
                               ELSE "Failed to fund wallet. Please try again.",
                     !.isLoading = FALSE,
                     !.pc = "idle"]
    /\ onlyFaucet

\* One of the two wallet pages is mounted, with or without a wallet.
InitWallet ==
    /\ ledger = {}
    /\ InitCoordinator
    /\ starter = InitStarter
    /\ displayed = NoDisplay
    /\ probe = <<>>
    /\ verdict = NoVerdict
    /\ \E connected \in BOOLEAN, chain \in 0..MaxBalance :
          \/ sendSol = InitSendSol(connected, chain) /\ faucet = NotMounted
          \/ sendSol = NotMounted /\ faucet = InitFaucet(connected, chain)

\* The calls of the send-SOL handler settle.
sendSettles ==
    \/ sendTransactionResolve
    \/ \E message \in RejectionMessages : sendTransactionReject(message)

\* The calls and the timer of the faucet handler settle.
faucetSettles ==
    \/ \E senderBalance \in 0..1 : getBalanceResolve(senderBalance)
    \/ requestAirdropResolve
    \/ airdropWaitOver
    \/ fundWalletSent
    \/ \E message \in RejectionMessages : fundWalletRejected(message)

NextWallet ==
    \/ sendWalletChange
    \/ sendGetAccountInfoResolve
    \/ sendGetAccountInfoReject
    \/ sendTimerFires
    \/ \E address \in Recipients : handleAddressChange(address)
    \/ \E value \in -1..MaxAmount : handleAmountChange(value)
    \/ handleSendTransaction
    \/ transferLands
    \/ sendSettles
    \/ faucetWalletChange
    \/ faucetGetAccountInfoResolve
    \/ faucetGetAccountInfoReject
    \/ faucetTimerFires
    \/ fundWallet
    \/ faucetSettles

\* Every call a handler awaits settles, and the timers fire.
SpecWallet ==
    /\ InitWallet
    /\ [][NextWallet]_vars
    /\ WF_vars(sendSettles)
    /\ WF_vars(faucetSettles)

\* ------------------------------------------------------- specifications
\* Page numbers and page sizes asked for: negative, zero and positive.
Pages == -1..MaxPage
PerPages == -1..MaxPerPage

\* One caller at a time, over the whole range of arguments.
Next ==
    \/ \E page \in Pages, perPage \in PerPages, search \in Searches,
          reload \in BOOLEAN : fetchPage(1, page, perPage, search, reload)
    \/ \E descending \in BOOLEAN : prefetchAccountsResolve(1, descending)
    \/ \E descending \in BOOLEAN : prefetchAccountsThrow(1, descending)
    \/ getProgramAccountsReject(1)
    \/ fetchPageResume(1)
    \/ getMultipleAccountsInfoResolve(1)
    \/ getMultipleAccountsInfoReject(1)
    \/ fetchPageSettle(1)
    \/ \E id \in AccountIds : closeAccount(id)

Spec == Init /\ [][Next]_vars

\* Two callers whose fetchPage calls overlap, each asking for the first page.
NextOverlap ==
    \/ \E c \in Callers, search \in Searches, reload \in BOOLEAN :
          fetchPage(c, 1, MaxPerPage, search, reload)
    \/ \E c \in Callers, descending \in BOOLEAN :
          prefetchAccountsResolve(c, descending)
    \/ \E c \in Callers, descending \in BOOLEAN :
          prefetchAccountsThrow(c, descending)
    \/ \E c \in Callers : getProgramAccountsReject(c)
    \/ \E c \in Callers : fetchPageResume(c)
    \/ \E c \in Callers : getMultipleAccountsInfoResolve(c)
    \/ \E c \in Callers : getMultipleAccountsInfoReject(c)
    \/ \E c \in Callers : fetchPageSettle(c)
    \/ \E id \in AccountIds : closeAccount(id)

\* The ledger of the overlapping callers: two accounts that the sort puts
\* in the other order than their identifiers, and one on which it throws.
OverlapLedgers == { {1, 2, 4} }

InitOverlap ==
    /\ ledger \in OverlapLedgers
    /\ InitCoordinator
    /\ InitPages
    /\ probe = <<>>
    /\ verdict = NoVerdict

SpecOverlap == InitOverlap /\ [][NextOverlap]_vars

\* One caller that repeats its calls over a ledger that does not change,
\* and keeps the outcome of each call.
NextRepeat ==
    \/ \E page \in 1..MaxPage, perPage \in 1..MaxPerPage, search \in Searches,
          reload \in BOOLEAN : fetchPage(1, page, perPage, search, reload)
    \/ \E descending \in BOOLEAN : prefetchAccountsResolve(1, descending)
    \/ \E descending \in BOOLEAN : prefetchAccountsThrow(1, descending)
    \/ getProgramAccountsReject(1)
    \/ fetchPageResume(1)
    \/ getMultipleAccountsInfoResolve(1)
    \/ getMultipleAccountsInfoReject(1)
    \/ fetchPageSettleKept(1)

SpecRepeat == Init /\ [][NextRepeat]_vars

\* The list page over the coordinator: its effect, its buttons, its search
\* box and its form, with up to two fetchPage calls in flight, over a node
\* that answers every call and lists the accounts in ascending order.  The
\* wallet stays connected and the form is filled in or emptied as a whole.
NextList ==
    \/ \E c \in Callers : starterEffect(c)
    \/ \E c \in Callers : starterEffectSettled(c)
    \/ \E c \in Callers : starterRefetchSettled(c)
    \/ \E text \in Searches : setSearch(text)
    \/ nextPage
    \/ previousPage
    \/ \E text \in FormTexts : editForm(text, text)
    \/ createSubmission
    \/ submissionSentSetPage
    \/ \E c \in Callers : submissionSentRefetch(c)
    \/ submissionFailed
    \/ \E c \in Callers : prefetchAccountsResolve(c, FALSE)
    \/ \E c \in Callers : fetchPageResume(c)
    \/ \E c \in Callers : getMultipleAccountsInfoResolve(c)

\* Ledgers for the list page: three accounts that decode, and three of which
\* one does not.
ListLedgers == { {1, 2, 3}, {1, 2, 5} }

InitList ==
    /\ ledger \in ListLedgers
    /\ InitCoordinator
    /\ InitPages
    /\ probe = <<>>
    /\ verdict = NoVerdict

SpecList == InitList /\ [][NextList]_vars

\* The form of the list page: each field on its own and the wallet coming
\* and going, while the search box is left alone.
NextForm ==
    \/ \E c \in Callers : starterEffect(c)
    \/ \E c \in Callers : starterEffectSettled(c)
    \/ \E c \in Callers : starterRefetchSettled(c)
    \/ nextPage
    \/ previousPage
    \/ \E name, thoughts \in FormTexts : editForm(name, thoughts)
    \/ starterWalletChange
    \/ createSubmission
    \/ submissionSentSetPage
    \/ \E c \in Callers : submissionSentRefetch(c)
    \/ submissionFailed
    \/ \E c \in Callers : prefetchAccountsResolve(c, FALSE)
    \/ \E c \in Callers : fetchPageResume(c)
    \/ \E c \in Callers : getMultipleAccountsInfoResolve(c)

InitForm ==
    /\ ledger = {1, 2, 3}
    /\ InitCoordinator
    /\ InitPages
    /\ probe = <<>>
    /\ verdict = NoVerdict

SpecForm == InitForm /\ [][NextForm]_vars

\* The list page when only the page buttons and the search box are used.
NextSearch ==
    \/ \E c \in Callers : starterEffect(c)
    \/ \E c \in Callers : starterEffectSettled(c)
    \/ \E text \in Searches : setSearch(text)
    \/ nextPage
    \/ previousPage
    \/ \E c \in Callers, descending \in BOOLEAN :
          prefetchAccountsResolve(c, descending)
    \/ \E c \in Callers : getProgramAccountsReject(c)
    \/ \E c \in Callers : fetchPageResume(c)
    \/ \E c \in Callers : getMultipleAccountsInfoResolve(c)
    \/ \E c \in Callers : getMultipleAccountsInfoReject(c)

SpecSearch == InitList /\ [][NextSearch]_vars


\* ------------------------------------------- the comparison on its own
MaxNameLen == 2
NameAlphabet == {65, 66, 97}

Bob == <<66, 111, 98>>
Alice == <<65, 108, 105, 99, 101>>
Amy == <<97, 109, 121>>

Names ==
    UNION { [1..n -> NameAlphabet] : n \in 0..MaxNameLen } \cup {Bob, Alice, Amy}

\* The discovery slice of an account with the given name: the length prefix
\* and as much of the name as the slice holds.
sliceOfName(name) == BufferSlice(U32LE(Len(name)) \o name, 0, DataSliceLength)

foundOfNames(names) ==
    [i \in 1..Len(names) |-> [pubkey |-> i, data |-> sliceOfName(names[i])]]

InitCompare ==
    /\ ledger = {}
    /\ InitCoordinator
    /\ InitPages
    /\ probe \in Names \X Names \X Names
    /\ verdict = NoVerdict

\* The coordinator is not running while a pure function is applied.
coordinatorIdle ==
    /\ UNCHANGED << ledger, accounts, builtFrom, pc, args,
                    paginatedPublicKeys, slicedFrom, infos, result, rpcLog,
                    request, trace, previous >>
    /\ pagesIdle

\* The sort callback applied to the pairs of the probe, and the sort applied
\* to accounts carrying the three names.
compareProbe ==
    LET found == foundOfNames(probe)
    IN  /\ ~verdict.done
        /\ verdict' = [done |-> TRUE,
                       ab |-> sortCallback(found[1], found[2]),
                       ba |-> sortCallback(found[2], found[1]),
                       bc |-> sortCallback(found[2], found[3]),
                       ac |-> sortCallback(found[1], found[3]),
                       sorted |-> pubkeysOf(sortAccounts(found))]
        /\ coordinatorIdle
        /\ UNCHANGED probe

NextCompare == compareProbe

SpecCompare == InitCompare /\ [][NextCompare]_vars

\* ------------------------------------------ the sort key on its own
MaxKeyLen == 8

\* Bytes of a name: the lowest and the highest.
KeyBytes == {0, 255}

KeyNames == UNION { [1..n -> KeyBytes] : n \in 0..MaxKeyLen }

InitSortKey ==
    /\ ledger = {}
    /\ InitCoordinator
    /\ InitPages
    /\ probe \in KeyNames
    /\ verdict = NoVerdict

\* The sort callback's key of the discovery slice of an account that
\* carries the name of the probe.
sortKeyProbe ==
    LET slice == sliceOfName(probe)
    IN  /\ ~verdict.done
        /\ verdict' = [done |-> TRUE, slice |-> slice,
                       throws |-> readUInt32LEThrows(slice),
                       key |-> nameData(slice)]
        /\ coordinatorIdle
        /\ UNCHANGED probe

NextSortKey == sortKeyProbe

SpecSortKey == InitSortKey /\ [][NextSortKey]_vars

\* ------------------------------------- the discovery request on its own
MaxSearchLen == 3

\* Characters of a search text: NUL, an ASCII letter, and characters whose
\* UTF-8 form takes two and three bytes.
SearchAlphabet == {0, 65, 233, 8364}

SearchTexts == UNION { [1..n -> SearchAlphabet] : n \in 0..MaxSearchLen }

InitRequest ==
    /\ ledger = {}
    /\ InitCoordinator
    /\ InitPages
    /\ probe \in SearchTexts
    /\ verdict = NoVerdict

\* prefetchAccounts builds the arguments of its discovery call for the
\* search text of the probe.
requestProbe ==
    /\ ~verdict.done
    /\ verdict' = [done |-> TRUE, request |-> discoveryRequest(probe)]
    /\ coordinatorIdle
    /\ UNCHANGED probe

NextRequest == requestProbe

SpecRequest == InitRequest /\ [][NextRequest]_vars

\* ------------------------------------------------- the codec on its own
MaxTextLen == 2

TextAlphabet == {65, 233, 8364}

Texts == UNION { [1..n -> TextAlphabet] : n \in 0..MaxTextLen }

Records == [name : Texts, message : Texts]

InitRoundTrip ==
    /\ ledger = {}
    /\ InitCoordinator
    /\ InitPages
    /\ probe \in Records
    /\ verdict = NoVerdict

\* The record of the probe is encoded and the encoding decoded.
roundTripProbe ==
    /\ ~verdict.done
    /\ verdict' = [done |-> TRUE, encoded |-> Encode(probe),
                   decoded |-> Decode(Encode(probe))]
    /\ coordinatorIdle
    /\ UNCHANGED probe

NextRoundTrip == roundTripProbe

SpecRoundTrip == InitRoundTrip /\ [][NextRoundTrip]_vars

MaxBufferLen == 9

\* Bytes of a buffer handed to Decode: zero, one, and a byte that is not
\* UTF-8 on its own.
BufferBytes == {0, 1, 200}

Buffers == UNION { [1..n -> BufferBytes] : n \in 0..MaxBufferLen }

InitDecode ==
    /\ ledger = {}
    /\ InitCoordinator
    /\ InitPages
    /\ probe \in Buffers
    /\ verdict = NoVerdict

\* The buffer of the probe is decoded.
decodeProbe ==
    /\ ~verdict.done
    /\ verdict' = [done |-> TRUE, decoded |-> Decode(probe)]
    /\ coordinatorIdle
    /\ UNCHANGED probe

NextDecode == decodeProbe

SpecDecode == InitDecode /\ [][NextDecode]_vars

\* ------------------------------------------------------------ properties
Sign(n) == IF n < 0 THEN -1 ELSE IF n > 0 THEN 1 ELSE 0

IsFailure(r) == r.status \in {"FetchError", "RangeError"}

\* C1: the identifiers sliced by a call always come from an index that was
\* built by a scan with the filter the call asked for.
C1_SliceComesFromRequestedFilter ==
    \A c \in Callers :
        slicedFrom[c].sliced =>
            /\ slicedFrom[c].from.built
            /\ slicedFrom[c].from.search = args[c].search

\* C2: when a rebuild fails (the discovery call rejects, or the sort
\* throws), the index is the same after the failure as before it and the
\* caller's call ends with the error.
C2_FailedRebuildKeepsIndex ==
    [][ \A c \in Callers :
            (pc[c] = "prefetch" /\ pc'[c] = "done") =>
                /\ accounts' = accounts
                /\ builtFrom' = builtFrom
                /\ IsFailure(result'[c]) ]_vars

C2_Witness ==
    /\ pc[1] = "done"
    /\ result[1].status = "FetchError"
    /\ rpcLog[1] = <<"getProgramAccounts">>
    /\ Len(accounts) >= 2

\* The callback's key of an identifier within one discovery response.
keyIn(found, id) ==
    LET i == CHOOSE k \in 1..Len(found) : found[k].pubkey = id
    IN  nameData(found[i].data)

\* `index` lists every identifier of the response `found` exactly once, in
\* the ascending order of the sort callback.
IsCompleteSortedScan(index, found) ==
    /\ Len(index) = Len(found)
    /\ { index[i] : i \in 1..Len(index) }
           = { found[i].pubkey : i \in 1..Len(found) }
    /\ \A i, j \in 1..Len(index) :
           i < j => /\ index[i] # index[j]
                    /\ compare(keyIn(found, index[i]),
                               keyIn(found, index[j])) <= 0

\* C3: in every state, rebuilds in progress or failed included, the index is
\* either the initial empty sequence or the complete sorted list of one
\* discovery that completed.
C3_IndexIsEmptyOrOneCompleteScan ==
    IF builtFrom.built
        THEN IsCompleteSortedScan(accounts, builtFrom.found)
        ELSE accounts = <<>>

C3_Witness ==
    /\ pc[1] = "prefetch"
    /\ pc[2] = "prefetch"
    /\ args[1].search # args[2].search
    /\ Len(accounts) = 2

\* C4: for page p >= 1 and page size s >= 1 over an index of N identifiers
\* the slice holds min(s, max(0, N - (p-1)*s)) identifiers, those of the
\* index positions (p-1)*s .. min(p*s, N)-1 in index order.
C4_PageSliceIsContiguous ==
    \A c \in Callers :
        (slicedFrom[c].sliced /\ args[c].page >= 1 /\ args[c].perPage >= 1) =>
            LET index == slicedFrom[c].index
                first == (args[c].page - 1) * args[c].perPage
                keys == paginatedPublicKeys[c]
            IN  /\ Len(keys) = Min(args[c].perPage,
                                   Max(0, Len(index) - first))
                /\ \A i \in 1..Len(keys) : keys[i] = index[first + i]

C4_Witness ==
    /\ slicedFrom[1].sliced
    /\ args[1].page = 2
    /\ args[1].perPage = 2
    /\ Len(slicedFrom[1].index) = 3
    /\ paginatedPublicKeys[1] = << slicedFrom[1].index[3] >>

\* C5: a request with page < 1 or page size < 1 yields an empty slice,
\* hence an empty record list with no batch fetch and no error.
C5_NonPositivePageIsEmpty ==
    \A c \in Callers :
        (slicedFrom[c].sliced /\ (args[c].page < 1 \/ args[c].perPage < 1)) =>
            /\ paginatedPublicKeys[c] = <<>>
            /\ pc[c] = "done"
            /\ result[c] = [status |-> "ok", intros |-> <<>>]

\* The complete raw bytes of the name field of an account.
fullName(id) ==
    LET data == AccountData(id)
    IN  IF Len(data) < DataSliceOffset + 4 THEN <<>>
        ELSE BufferSlice(data, DataSliceOffset + 4,
                         DataSliceOffset + 4
                             + readUInt32LE(BufferSlice(data, DataSliceOffset,
                                                        DataSliceOffset + 4)))

\* C6: after a successful rebuild the index is in ascending order of the
\* complete name bytes of its accounts.
C6_IndexSortedByFullName ==
    builtFrom.built =>
        \A i, j \in 1..Len(accounts) :
            i < j => compare(fullName(accounts[i]), fullName(accounts[j])) <= 0

\* The sign the byte order gives two names: that of their first differing
\* byte, or of their lengths when one is a prefix of the other.
byteOrder(a, b) ==
    LET differing == { i \in 1..Min(Len(a), Len(b)) : a[i] # b[i] }
    IN  IF differing = {} THEN Sign(Len(a) - Len(b))
        ELSE LET i == CHOOSE k \in differing : \A m \in differing : k <= m
             IN  Sign(a[i] - b[i])

\* C7: the comparison orders two names by their first differing byte and
\* puts a proper prefix first; it is antisymmetric and transitive, and Bob,
\* Alice, amy sort to Alice, Bob, amy.
C7_CompareIsByteOrder ==
    verdict.done =>
        /\ Sign(verdict.ab) = byteOrder(probe[1], probe[2])
        /\ Sign(verdict.ab) = - Sign(verdict.ba)
        /\ (verdict.ab = 0 => probe[1] = probe[2])
        /\ (verdict.ab <= 0 /\ verdict.bc <= 0 => verdict.ac <= 0)
        /\ \A i, j \in 1..3 :
               i < j => byteOrder(probe[verdict.sorted[i]],
                                  probe[verdict.sorted[j]]) <= 0
        /\ (probe = <<Bob, Alice, Amy>> => verdict.sorted = <<2, 1, 3>>)

C7_Witness ==
    /\ verdict.done
    /\ probe = <<Bob, Alice, Amy>>
    /\ verdict.sorted = <<2, 1, 3>>

\* The positions of a batch response that are present and decode.
decodable(fetched) ==
    { i \in 1..Len(fetched) :
        fetched[i] # Absent /\ Decode(Tail(fetched[i])).ok }

\* C8: fetchPage returns exactly the records of the positions whose payload
\* is present and decodes, in the order of the requested identifiers.
C8_ReturnsDecodablePositionsInOrder ==
    \A c \in Callers :
        (pc[c] = "done" /\ result[c].status = "ok" /\ infos[c] # NoInfos) =>
            LET kept == IdsAscending(decodable(infos[c]))
                intros == result[c].intros
            IN  /\ Len(intros) = Len(kept)
                /\ \A k \in 1..Len(kept) :
                       LET r == Decode(Tail(infos[c][kept[k]]))
                       IN  /\ intros[k].name = r.name
                           /\ intros[k].message = r.message

C8_Witness ==
    /\ pc[1] = "done"
    /\ result[1].status = "ok"
    /\ Len(infos[1]) = 2
    /\ infos[1][1] = Absent
    /\ infos[1][2] = AccountData(1)
    /\ Len(result[1].intros) = 1

\* C9: fetchPage fails only when a ledger call itself fails.
C9_OnlyLedgerCallsFail ==
    \A c \in Callers :
        pc[c] = "done" => result[c].status \in {"ok", "FetchError"}

\* C10: when the requested page lies entirely beyond the index, fetchPage
\* returns an empty record list, no error, and issues no batch fetch.
C10_PageBeyondIndexIsEmpty ==
    \A c \in Callers :
        ( /\ slicedFrom[c].sliced
          /\ args[c].page >= 1
          /\ args[c].perPage >= 1
          /\ (args[c].page - 1) * args[c].perPage >= Len(slicedFrom[c].index) )
        =>  /\ pc[c] = "done"
            /\ result[c] = [status |-> "ok", intros |-> <<>>]
            /\ \A i \in 1..Len(rpcLog[c]) :
                   rpcLog[c][i] # "getMultipleAccountsInfo"

C10_Witness ==
    /\ slicedFrom[1].sliced
    /\ Len(slicedFrom[1].index) = 2
    /\ args[1].page = 2
    /\ args[1].perPage = 2
    /\ pc[1] = "done"
    /\ result[1] = [status |-> "ok", intros |-> <<>>]

\* C11: a rejected discovery call or batch-fetch call ends the caller's
\* fetchPage with that failure and no record list; a rejected discovery
\* leaves the index as it was, and a rejected batch fetch leaves the index
\* as it was when the page was sliced.
C11_RejectionReachesCaller ==
    [][ \A c \in Callers :
            (trace[c].rejected = "none" /\ trace'[c].rejected # "none") =>
                /\ pc'[c] = "done"
                /\ result'[c] = [status |-> "FetchError", intros |-> <<>>]
                /\ accounts' = accounts
                /\ (trace'[c].rejected = "getMultipleAccountsInfo" =>
                        accounts' = slicedFrom[c].index) ]_vars

C11_Witness ==
    /\ pc[1] = "done"
    /\ trace[1].rejected = "getMultipleAccountsInfo"
    /\ result[1].status = "FetchError"
    /\ Len(accounts) >= 2
    /\ accounts = slicedFrom[1].index

\* C12: one fetchPage call issues the discovery call at most once and the
\* batch fetch at most once, whether they resolve or reject.
callsIssued(c, call) ==
    Cardinality({ i \in 1..Len(rpcLog[c]) : rpcLog[c][i] = call })

C12_NoRetry ==
    \A c \in Callers :
        /\ callsIssued(c, "getProgramAccounts") <= 1
        /\ callsIssued(c, "getMultipleAccountsInfo") <= 1

C12_Witness ==
    /\ pc[1] = "done"
    /\ trace[1].rejected = "getMultipleAccountsInfo"
    /\ rpcLog[1] = <<"getProgramAccounts", "getMultipleAccountsInfo">>

\* C13: within one fetchPage call the discovery and the replacement of the
\* index come before the slice, the slice before the batch fetch, and the
\* batch fetch before the decoding; the batch fetch is issued with the
\* identifiers of the slice in slice order, and the responses are decoded
\* position by position in that order.
C13_StepsInOrder ==
    \A c \in Callers :
        /\ rpcLog[c] \in { <<>>, <<"getProgramAccounts">>,
                           <<"getMultipleAccountsInfo">>,
                           <<"getProgramAccounts", "getMultipleAccountsInfo">> }
        /\ pc[c] = "prefetch" =>
               /\ rpcLog[c] = <<"getProgramAccounts">>
               /\ ~trace[c].rebuilt.done
               /\ ~slicedFrom[c].sliced
        /\ pc[c] = "resumed" =>
               /\ rpcLog[c] = <<"getProgramAccounts">>
               /\ trace[c].rebuilt.done
               /\ ~slicedFrom[c].sliced
        /\ (slicedFrom[c].sliced /\ rpcLog[c] # <<>>
                /\ rpcLog[c][1] = "getProgramAccounts") =>
               /\ trace[c].rebuilt.done
               /\ slicedFrom[c].index = trace[c].rebuilt.index
        /\ slicedFrom[c].sliced =>
               paginatedPublicKeys[c] =
                   ArraySlice(slicedFrom[c].index,
                              (args[c].page - 1) * args[c].perPage,
                              args[c].page * args[c].perPage)
        /\ pc[c] = "batch" =>
               /\ slicedFrom[c].sliced
               /\ request[c] = batchRequest(paginatedPublicKeys[c])
               /\ infos[c] = NoInfos
               /\ result[c] = NoResult
        /\ infos[c] # NoInfos =>
               /\ pc[c] = "done"
               /\ request[c] = batchRequest(paginatedPublicKeys[c])
               /\ Len(infos[c]) = Len(paginatedPublicKeys[c])
               /\ \A i \in 1..Len(infos[c]) :
                      infos[c][i] \in
                          {Absent, AccountData(paginatedPublicKeys[c][i])}
               /\ result[c] = [status |-> "ok",
                               intros |-> reduceIntros(<<>>, infos[c])]

C13_Witness ==
    /\ pc[1] = "done"
    /\ rpcLog[1] = <<"getProgramAccounts", "getMultipleAccountsInfo">>
    /\ trace[1].rebuilt.done
    /\ paginatedPublicKeys[1] = <<3, 1>>
    /\ infos[1] = << AccountData(3), AccountData(1) >>
    /\ Len(result[1].intros) = 2

\* C14: over a ledger that does not change, a fetchPage call with the
\* arguments of the call before it and reload = false returns the records
\* that call returned, in the same order, and leaves the index as that call
\* left it.
C14_RepeatedCallSameRecords ==
    ( /\ pc[1] = "done"
      /\ previous.known
      /\ previous.args = args[1]
      /\ ~args[1].reload
      /\ previous.result.status = "ok"
      /\ result[1].status = "ok" )
    =>  /\ result[1].intros = previous.result.intros
        /\ accounts = previous.index

C14_Witness ==
    /\ pc[1] = "done"
    /\ previous.known
    /\ previous.args = args[1]
    /\ ~args[1].reload
    /\ previous.result.status = "ok"
    /\ result[1].status = "ok"
    /\ rpcLog[1] = <<"getMultipleAccountsInfo">>
    /\ Len(result[1].intros) = 2
    /\ Len(accounts) = 3

\* C15: when the rebuilds of two fetchPage calls overlap and both have
\* replaced the index, the index is the complete result of the rebuild that
\* replaced it last, whichever started first, and a page sliced from then on
\* is a slice of that index.
C15_LastReplacementWins ==
    /\ (\A c \in Callers : trace[c].overlapped /\ trace[c].rebuilt.done) =>
           /\ builtFrom.built
           /\ accounts = trace[builtFrom.by].rebuilt.index
           /\ accounts = pubkeysOf(sortAccounts(builtFrom.found))
    /\ \A c \in Callers :
           (slicedFrom[c].sliced /\ slicedFrom[c].from = builtFrom) =>
               slicedFrom[c].index = accounts

C15_Witness ==
    /\ \A c \in Callers : trace[c].overlapped /\ trace[c].rebuilt.done
    /\ trace[1].rebuilt.index # trace[2].rebuilt.index
    /\ builtFrom.by = 2
    /\ accounts = trace[2].rebuilt.index
    /\ slicedFrom[1].sliced
    /\ slicedFrom[1].index = accounts

\* C16: nothing limits the rebuilds in flight to one: while one caller's
\* discovery call is pending, another caller can start a fetchPage that
\* issues its own discovery call, with reload or over an empty index.
C16_NothingLimitsRebuilds ==
    \A c \in Callers :
        (pc[c] = "idle" /\ \E d \in Callers \ {c} : pc[d] = "prefetch") =>
            /\ ENABLED fetchPage(c, 1, MaxPerPage, <<>>, TRUE)
            /\ (accounts = <<>> =>
                    ENABLED fetchPage(c, 1, MaxPerPage, <<>>, FALSE))

C16_Witness ==
    /\ accounts = <<>>
    /\ \A c \in Callers :
           /\ pc[c] = "prefetch"
           /\ ~args[c].reload
           /\ request[c].call = "getProgramAccounts"
           /\ rpcLog[c] = <<"getProgramAccounts">>

\* C17: the index changes only in the step in which a successful rebuild
\* replaces it; slicing a page, fetching the batch, decoding and returning
\* the records leave it as it was, and so does a closed account.
C17_IndexChangesOnlyAtReplacement ==
    [][ /\ accounts' # accounts =>
               \E c \in Callers :
                   /\ pc[c] = "prefetch"
                   /\ pc'[c] = "resumed"
                   /\ trace'[c].rebuilt = [done |-> TRUE, index |-> accounts']
        /\ \A c \in Callers :
               (pc[c] \in {"resumed", "batch", "done"} /\ pc'[c] # pc[c]) =>
                   accounts' = accounts ]_vars

C17_Witness ==
    /\ pc[1] = "done"
    /\ result[1].status = "ok"
    /\ paginatedPublicKeys[1] = <<2, 3>>
    /\ infos[1] = << Absent, AccountData(3) >>
    /\ accounts = <<2, 3, 1>>
    /\ slicedFrom[1].index = accounts

\* C18: the discovery request of a rebuild names the introductions program,
\* asks for the fixed short data slice, and carries one byte-match filter,
\* at the name offset and with the UTF-8 bytes of the search text, exactly
\* when the search text is not empty; it carries no filter otherwise.
C18_DiscoveryRequestShape ==
    verdict.done =>
        LET config == verdict.request
        IN  /\ config.programId = STUDENT_INTRO_PROGRAM_ID
            /\ config.dataSlice = [offset |-> 1, length |-> 12]
            /\ Len(config.filters) = (IF probe = <<>> THEN 0 ELSE 1)
            /\ \A i \in 1..Len(config.filters) :
                   LET bytes == bs58decode(config.filters[i].memcmp.bytes)
                   IN  /\ config.filters[i].memcmp.offset = 5
                       /\ bytes = TextEncoderEncode(probe)
                       /\ Utf8Decode(bytes) = [ok |-> TRUE, chars |-> probe]

C18_Witness ==
    /\ verdict.done
    /\ probe = <<0, 233, 8364>>
    /\ Len(verdict.request.filters) = 1
    /\ bs58decode(verdict.request.filters[1].memcmp.bytes) =
           <<0, 195, 169, 226, 130, 172>>

\* C19: decoding the encoding of a record gives the record back, for names
\* and messages of any characters, the empty string included.
C19_DecodeInvertsEncode ==
    verdict.done =>
        /\ verdict.decoded.ok
        /\ verdict.decoded.name = probe.name
        /\ verdict.decoded.message = probe.message
        /\ verdict.decoded.read = Len(verdict.encoded)
        /\ deserialize(<<1>> \o verdict.encoded) =
               [ok |-> TRUE, name |-> probe.name, message |-> probe.message]

C19_Witness ==
    /\ verdict.done
    /\ probe = [name |-> <<233, 8364>>, message |-> <<>>]
    /\ verdict.encoded = <<5, 0, 0, 0, 195, 169, 226, 130, 172, 0, 0, 0, 0>>
    /\ verdict.decoded.ok

\* Whether fewer bytes remain at the cursor than the length prefix needs, or
\* than the prefix declares.
fieldCutShort(bytes, cursor) ==
    \/ Len(bytes) - cursor < 4
    \/ declaredLengthExceeds(SubSeq(bytes, cursor + 1, cursor + 4),
                             Len(bytes) - cursor - 4)

cutShort(bytes) ==
    \/ fieldCutShort(bytes, 0)
    \/ fieldCutShort(bytes, 4 + declaredLength(SubSeq(bytes, 1, 4)))

\* C20 as stated: for every buffer cut short of a length prefix or of a
\* declared length Decode returns Truncated and reads nothing at or beyond
\* the end of the buffer.
C20_CutShortIsTruncated ==
    (verdict.done /\ cutShort(probe)) =>
        /\ ~verdict.decoded.ok
        /\ verdict.decoded.err = "Truncated"
        /\ verdict.decoded.read <= Len(probe)

\* C20, amended: for every buffer that is not empty and is cut short of a
\* length prefix or of a declared length Decode returns Truncated and reads
\* nothing at or beyond the end of the buffer; the empty buffer is Empty.
C20_NonEmptyCutShortIsTruncated ==
    verdict.done =>
        /\ (probe # <<>> /\ cutShort(probe)) =>
               /\ ~verdict.decoded.ok
               /\ verdict.decoded.err = "Truncated"
        /\ probe = <<>> =>
               /\ ~verdict.decoded.ok
               /\ verdict.decoded.err = "Empty"
        /\ verdict.decoded.read <= Len(probe)

C20_Witness ==
    /\ verdict.done
    /\ probe = <<1, 0, 0, 0, 200, 1, 0, 0, 0>>
    /\ verdict.decoded.err = "Truncated"
    /\ verdict.decoded.read = 9

\* C21: for every buffer Decode returns either a record with both the name
\* and the message, or one of the three errors and no field at all; an
\* absent payload deserializes to null like an undecodable one.
C21_RecordOrError ==
    verdict.done =>
        LET d == verdict.decoded
            record == deserialize(<<1>> \o probe)
        IN  /\ d.ok =>
                   /\ DOMAIN d = {"ok", "name", "message", "read"}
                   /\ Encode([name |-> d.name, message |-> d.message]) =
                          SubSeq(probe, 1, d.read)
            /\ ~d.ok =>
                   /\ DOMAIN d = {"ok", "err", "read"}
                   /\ d.err \in {"Empty", "Truncated", "InvalidUtf8"}
            /\ record = (IF d.ok
                            THEN [ok |-> TRUE, name |-> d.name,
                                  message |-> d.message]
                            ELSE Null)
            /\ deserialize(Absent) = Null

C21_Witness ==
    /\ verdict.done
    /\ probe = <<1, 0, 0, 0, 1, 200, 0, 0>>
    /\ ~verdict.decoded.ok
    /\ verdict.decoded.err = "Truncated"

\* C22: a fetchPage call without reload for the search text that built a
\* non-empty index issues no discovery call and slices its page from that
\* index, which it leaves as it is.
C22_CachedIndexIsReused ==
    [][ \A c \in Callers :
            ( /\ pc[c] = "idle"
              /\ pc'[c] # "idle"
              /\ accounts # <<>>
              /\ ~args'[c].reload
              /\ builtFrom.built
              /\ builtFrom.search = args'[c].search )
            =>  /\ pc'[c] \in {"batch", "done"}
                /\ callsIssued(c, "getProgramAccounts")' = 0
                /\ slicedFrom'[c].sliced
                /\ slicedFrom'[c].index = accounts
                /\ paginatedPublicKeys'[c] =
                       ArraySlice(accounts,
                                  (args'[c].page - 1) * args'[c].perPage,
                                  args'[c].page * args'[c].perPage)
                /\ accounts' = accounts ]_vars

C22_Witness ==
    /\ pc[1] = "batch"
    /\ ~args[1].reload
    /\ args[1].search = <<65>>
    /\ builtFrom.built
    /\ builtFrom.search = <<65>>
    /\ rpcLog[1] = <<"getMultipleAccountsInfo">>
    /\ slicedFrom[1].index = accounts
    /\ Len(accounts) = 2

\* C23: from a discovery slice that holds the 4-byte little-endian length L
\* and the L bytes of the name, and nothing of the message, the sort
\* callback takes exactly those L bytes as the key, for every L from 0 to
\* the longest name the slice has room for.
C23_KeyOfExactSlice ==
    (verdict.done /\ 4 + Len(probe) <= DataSliceLength) =>
        /\ verdict.slice = U32LE(Len(probe)) \o probe
        /\ ~verdict.throws
        /\ verdict.key = probe

C23_Witness ==
    /\ verdict.done
    /\ probe = <<255, 0, 255, 0, 0, 0, 0, 255>>
    /\ Len(verdict.slice) = DataSliceLength
    /\ verdict.key = probe

\* C27: when fetchPage calls overlap, a call that performed its own rebuild
\* slices its page from the index that rebuild installed.
C27_SliceComesFromOwnRebuild ==
    \A c \in Callers :
        (slicedFrom[c].sliced /\ trace[c].rebuilt.done) =>
            slicedFrom[c].index = trace[c].rebuilt.index

\* The list page is at rest: no effect to run, no call in flight, no
\* submission pending.
atRest ==
    /\ ~starter.effect
    /\ starter.tx = "idle"
    /\ \A c \in Callers : pc[c] = "idle"

\* C24: when the page is at rest showing the list of its current page and
\* the index holds identifiers beyond that page, the Next button is enabled,
\* also when the page shown is short of entries that were dropped.
C24_NextEnabledWhileIndexGoesOn ==
    ( /\ atRest
      /\ ~starter.isLoading
      /\ displayed.known
      /\ displayed.latest
      /\ displayed.page = starter.page
      /\ Len(accounts) > starter.page * ItemsPerPage )
    => ~(Len(starter.studentIntros) < ItemsPerPage \/ starter.isLoading)

\* C25: once the list page is at rest after a successful submission, a
\* discovery call has been issued since the submission.
C25_RefreshAfterSubmission ==
    atRest => ~displayed.owed

\* C28: once no fetch is in flight, the list displayed is the result of the
\* request issued last, whatever the order in which the requests resolved.
C28_LatestRequestIsDisplayed ==
    (atRest /\ displayed.known /\ ~displayed.failed) => displayed.latest

\* C29: after search edits whose fetches never overlapped, the list
\* displayed was sliced from an index built with the text in the search box.
C29_IndexBuiltWithSearchText ==
    (atRest /\ displayed.known /\ displayed.latest /\ ~displayed.overlap) =>
        displayed.indexSearch = starter.search

\* C30: isLoading is true in every state in which a page fetch or a
\* submission of the list page is in flight, so that the Submit button stays
\* disabled while a submitted transaction is unresolved.
C30_LoadingWhileInFlight ==
    ( \/ starter.tx = "sending"
      \/ \E c \in Callers : starter.kind[c] # "none" )
    => starter.isLoading

\* C26: in the send-SOL and faucet handlers, an invocation that sets
\* isLoading to true sets it back to false once its calls have settled, on
\* success and on every failure, and an invocation that the validation
\* rejects leaves isLoading false.
C26_LoadingIsReset ==
    /\ (sendSol.mounted /\ sendSol.isLoading)
           ~> (sendSol.mounted /\ ~sendSol.isLoading)
    /\ (faucet.mounted /\ faucet.isLoading)
           ~> (faucet.mounted /\ ~faucet.isLoading)
    /\ [][ /\ (sendSol.mounted /\ sendSol.pc = "idle"
                  /\ sendSol' # sendSol /\ sendSol'.pc = "idle"
                  /\ sendValidation(sendSol) # "")
               => ~sendSol'.isLoading
           /\ (faucet.mounted /\ faucet.pc = "idle"
                  /\ faucet' # faucet /\ faucet'.pc = "idle"
                  /\ ~faucet.connected)
               => ~faucet'.isLoading ]_vars

\* A transfer that the wallet rejected has ended with the loading flag
\* false.
C26_Witness ==
    /\ sendSol.mounted
    /\ sendSol.error = "Transaction was cancelled by user"
    /\ sendSol.pc = "idle"
    /\ ~sendSol.isLoading

\* C31: after a successful scan that found no matching account, a fetchPage
\* call without reload for the search text of that scan issues no discovery
\* call.
C31_EmptyScanIsCached ==
    [][ \A c \in Callers :
            ( /\ pc[c] = "idle"
              /\ pc'[c] # "idle"
              /\ builtFrom.built
              /\ builtFrom.found = <<>>
              /\ accounts = <<>>
              /\ ~args'[c].reload
              /\ builtFrom.search = args'[c].search )
            => callsIssued(c, "getProgramAccounts")' = 0 ]_vars

\* Every check the send-SOL page makes of a submission holds.
sendChecksHold ==
    /\ sendSol.connected
    /\ sendSol.recipientAddress # ""
    /\ sendSol.isValidAddress
    /\ validateSolanaAddress(sendSol.recipientAddress)
    /\ sendSol.amount > 0
    /\ sendSol.amount <= sendSol.balance
    /\ sendSol.recipientAddress # "own"

\* C32: handleSendTransaction hands a transaction to the wallet only when
\* a wallet is connected, the recipient is non-blank and validated, the
\* amount is above 0 and within the displayed balance, and the recipient is
\* not the sender; when a check fails no transaction is handed over, the
\* error message is set and isLoading stays false.
C32_SendOnlyWhenValid ==
    [][ /\ (sendSol.mounted /\ sendSol.pc = "idle" /\ sendSol'.pc = "wallet")
            => (sendChecksHold /\ sendSol'.amountToSend = sendSol.amount)
        /\ (handleSendTransaction /\ ~sendChecksHold)
            =>  /\ sendSol'.pc = "idle"
                /\ sendSol'.error # ""
                /\ ~sendSol'.isLoading
                /\ sendSol'.txSig = sendSol.txSig
                /\ sendSol'.chain = sendSol.chain ]_vars

\* A transfer of the whole displayed balance to another key is with the
\* wallet.
C32_Witness ==
    /\ sendSol.mounted
    /\ sendSol.pc = "wallet"
    /\ sendSol.isLoading
    /\ sendSol.recipientAddress = "other"
    /\ sendSol.amountToSend = sendSol.balance
    /\ sendSol.balance = MaxBalance

\* C33: the balance the send-SOL page displays is never negative.
C33_BalanceNeverNegative ==
    sendSol.mounted => sendSol.balance >= 0

\* C34: when sendTransaction of the send-SOL handler is rejected, the
\* recipient address, the amount, the validity flag, the displayed balance
\* and the last signature stay as they are, the error message is set, and
\* no balance refresh is scheduled.
C34_FailureLeavesFormAndBalance ==
    [][ (\E message \in RejectionMessages : sendTransactionReject(message))
        =>  /\ sendSol'.recipientAddress = sendSol.recipientAddress
            /\ sendSol'.amount = sendSol.amount
            /\ sendSol'.isValidAddress = sendSol.isValidAddress
            /\ sendSol'.balance = sendSol.balance
            /\ sendSol'.txSig = sendSol.txSig
            /\ sendSol'.error # ""
            /\ sendSol'.timers = sendSol.timers
            /\ sendSol'.fetches = sendSol.fetches ]_vars

\* A second transfer failed for lack of funds: the form is still filled in
\* and the signature of the first transfer is still shown.
C34_Witness ==
    /\ sendSol.mounted
    /\ sendSol.pc = "idle"
    /\ sendSol.error = "Insufficient funds for transaction"
    /\ sendSol.recipientAddress = "other"
    /\ sendSol.isValidAddress
    /\ sendSol.amount = 1
    /\ sendSol.txSig = "signature"

\* C35: the name and thoughts fields of the introduction form keep what
\* was typed when the submission finds no wallet and when its transaction
\* fails; only a transaction that was sent clears them.
C35_FormKeptOnFailure ==
    [][ ( \/ submissionFailed
          \/ (createSubmission /\ ~starter.connected) )
        =>  /\ starter'.name = starter.name
            /\ starter'.thoughts = starter.thoughts ]_vars

====
